---- MODULE Spec2Model ----
(***************************************************************************)
(* LinearAlgebra::TpetraWrappers::SparseMatrix                             *)
(* (include/deal.II/lac/trilinos_tpetra_sparse_matrix.templates.h).        *)
(*                                                                         *)
(* One matrix object on one process.  The object has the three members of  *)
(* the class: column_space_map, matrix (the Tpetra::CrsMatrix behind a     *)
(* reference-counted pointer) and the flag compressed.  The CrsMatrix is   *)
(* modelled by what the wrapper reads from it and does to it: its row and  *)
(* column counts, its domain map, whether its graph is static, whether it  *)
(* is fill-complete, and its stored entries (position -> value).           *)
(*                                                                         *)
(* Checks made with Assert are fatal; an operation that trips one stops at *)
(* that statement, so whatever it assigned before stays assigned.  The     *)
(* outcome of the last operation is kept in lastOp / err / ret /           *)
(* finalizeIssued; repeated says that the call before it was the same      *)
(* operation, pre says whether the matrix held a nonzero value and    *)
(* whether its storage was fill-complete when the operation was called.    *)
(* args holds the arguments of the last call where a property needs them.  *)
(*                                                                         *)
(* A matrix distributed by rows is seen from one of its processes: rowMap  *)
(* is the set of global rows the process owns, values holds the entries of *)
(* those rows, and nonlocals holds what the process was given for rows of  *)
(* other processes, which the next fillComplete hands to their owners.     *)
(***************************************************************************)
EXTENDS Integers, Sequences, FiniteSets, TLC

\* ---------------------------------------------------------------- bounds
MaxRows == 1
MaxCols == 1
MaxVal == 1
MaxLen == 2
NumRanks == 3
MaxCalls == 3

\* A value that is not finite (what AssertIsFinite rejects); stored values
\* are the naturals 0..MaxVal or this one.
NaN == -1

VARIABLES column_space_map, matrix, compressed,
          lastOp, err, ret, finalizeIssued, repeated, pre, args, other, procs

vars ==
  <<column_space_map, matrix, compressed,
    lastOp, err, ret, finalizeIssued, repeated, pre, args, other, procs>>

\* ------------------------------------------------------------ arithmetic
IsFinite(v) == v # NaN

Plus(a, b) == IF a = NaN \/ b = NaN THEN NaN ELSE a + b

Times(a, b) == IF a = NaN \/ b = NaN THEN NaN ELSE a * b

InRange(v) == v = NaN \/ (v >= 0 /\ v <= MaxVal)

\* ------------------------------------------------- the underlying matrix
Positions(mm, nn) == (0 .. mm - 1) \X (0 .. nn - 1)

EmptyValues == [p \in {} |-> 0]

\* matrix.reset(): the pointer holds nothing.
NullMatrix ==
  [null |-> TRUE, rows |-> 0, cols |-> 0, domainMap |-> 0, rowMap |-> {},
   isStaticGraph |-> FALSE, isFillComplete |-> FALSE, values |-> EmptyValues,
   nonlocals |-> EmptyValues]

\* make_rcp<MatrixType>(graph): a matrix on a fill-complete graph.  The graph
\* is fixed, every value is zero, and the matrix itself is fill-active: the
\* constructors and reinit call fillComplete on it right afterwards, which
\* Tpetra only accepts on a fill-active matrix.
MatrixFromGraph(mm, nn, pattern) ==
  [null |-> FALSE, rows |-> mm, cols |-> nn, domainMap |-> nn,
   rowMap |-> 0 .. mm - 1,
   isStaticGraph |-> TRUE, isFillComplete |-> FALSE,
   values |-> [p \in pattern |-> 0], nonlocals |-> EmptyValues]

\* make_rcp<MatrixType>(row_map, column_space_map, n_max_entries_per_row):
\* no graph yet, no entries, fill-active.
MatrixFromMaps(mm, nn) ==
  [null |-> FALSE, rows |-> mm, cols |-> nn, domainMap |-> nn,
   rowMap |-> 0 .. mm - 1,
   isStaticGraph |-> FALSE, isFillComplete |-> FALSE, values |-> EmptyValues,
   nonlocals |-> EmptyValues]

\* matrix->resumeFill()
resumeFill(M) == [M EXCEPT !.isFillComplete = FALSE]

\* matrix->fillComplete(domain_map, range_map); a static graph keeps the
\* maps it was finalized with.  What was given for rows of other processes
\* is handed to their owners.
fillComplete(M, dom) ==
  [M EXCEPT !.isFillComplete = TRUE,
            !.domainMap = IF M.isStaticGraph THEN @ ELSE dom,
            !.nonlocals = EmptyValues]

\* scale(a): every stored value times a.
scale(M, a) == [M EXCEPT !.values = [p \in DOMAIN @ |-> Times(@[p], a)]]

\* setAllToScalar(0.0)
setAllToScalar(M, d) == [M EXCEPT !.values = [p \in DOMAIN @ |-> d]]

\* What insertGlobalValues and sumIntoGlobalValues do with a row of another
\* process: the entries are put aside, summed per position.
RECURSIVE insertNonownedGlobalValues(_, _, _)
insertNonownedGlobalValues(M, row, ents) ==
  IF ents = << >> THEN M
  ELSE LET pos == <<row, Head(ents)[1]>>
           v == Head(ents)[2]
           M1 == IF pos \in DOMAIN M.nonlocals
                   THEN [M EXCEPT !.nonlocals[pos] = Plus(@, v)]
                   ELSE [M EXCEPT !.nonlocals = @ @@ (pos :> v)]
       IN insertNonownedGlobalValues(M1, row, Tail(ents))

\* insertGlobalValues(row, n, values, cols) on a matrix that owns its graph:
\* a position not stored yet is created, a value given for a stored position
\* is summed into it.
RECURSIVE insertGlobalValues(_, _, _)
insertGlobalValues(M, row, ents) ==
  IF ents = << >> THEN M
  ELSE IF row \notin M.rowMap THEN insertNonownedGlobalValues(M, row, ents)
  ELSE LET pos == <<row, Head(ents)[1]>>
           v == Head(ents)[2]
           M1 == IF pos \in DOMAIN M.values
                   THEN [M EXCEPT !.values[pos] = Plus(@, v)]
                   ELSE [M EXCEPT !.values = @ @@ (pos :> v)]
       IN insertGlobalValues(M1, row, Tail(ents))

\* replaceGlobalValues(row, n, values, cols): overwrites the positions the
\* graph holds and skips the others; a row of another process is skipped.
RECURSIVE replaceGlobalValues(_, _, _)
replaceGlobalValues(M, row, ents) ==
  IF ents = << >> THEN M
  ELSE IF row \notin M.rowMap THEN M
  ELSE LET pos == <<row, Head(ents)[1]>>
           v == Head(ents)[2]
           M1 == IF pos \in DOMAIN M.values
                   THEN [M EXCEPT !.values[pos] = v]
                   ELSE M
       IN replaceGlobalValues(M1, row, Tail(ents))

\* sumIntoGlobalValues(row, cols, values): adds to the positions the matrix
\* holds and skips the others.
RECURSIVE sumIntoGlobalValues(_, _, _)
sumIntoGlobalValues(M, row, ents) ==
  IF ents = << >> THEN M
  ELSE IF row \notin M.rowMap THEN insertNonownedGlobalValues(M, row, ents)
  ELSE LET pos == <<row, Head(ents)[1]>>
           v == Head(ents)[2]
           M1 == IF pos \in DOMAIN M.values
                   THEN [M EXCEPT !.values[pos] = Plus(@, v)]
                   ELSE M
       IN sumIntoGlobalValues(M1, row, Tail(ents))

\* ---------------------------------------------------------- the wrapper
\* The object: the members of SparseMatrix.
Self ==
  [column_space_map |-> column_space_map, matrix |-> matrix,
   compressed |-> compressed]

Object(csm, M, c) == [column_space_map |-> csm, matrix |-> M, compressed |-> c]

\* What a call leaves behind: the object, the check that stopped it ("ok" if
\* none), the value returned, and whether it called the underlying
\* fillComplete.
Result(self, e, r, f) == [self |-> self, err |-> e, ret |-> r, fin |-> f]

Fail(self, e) == Result(self, e, 0, FALSE)

Do(op, res) ==
  /\ column_space_map' = res.self.column_space_map
  /\ matrix' = res.self.matrix
  /\ compressed' = res.self.compressed
  /\ lastOp' = op
  /\ err' = res.err
  /\ ret' = res.ret
  /\ finalizeIssued' = res.fin
  /\ repeated' = (lastOp = op)
  /\ pre' = [nonzero |-> \E p \in DOMAIN matrix.values : matrix.values[p] # 0,
             finalized |-> matrix.isFillComplete]
  /\ other' = other
  /\ procs' = procs

\* A second SparseMatrix object, where a run has one; none otherwise.
NoOther == Object(0, NullMatrix, FALSE)

\* The processes of a communicator, where a run has several; none otherwise.
NoProcs == << >>

\* A call on the second object.
DoOther(op, res) ==
  /\ other' = res.self
  /\ UNCHANGED <<column_space_map, matrix, compressed>>
  /\ lastOp' = op
  /\ err' = res.err
  /\ ret' = res.ret
  /\ finalizeIssued' = res.fin
  /\ repeated' = (lastOp = op)
  /\ pre' = [nonzero |->
               \E p \in DOMAIN other.matrix.values : other.matrix.values[p] # 0,
             finalized |-> other.matrix.isFillComplete]
  /\ procs' = procs

\* Every stored value of the object is one the model represents.
Representable(res) ==
  \A p \in DOMAIN res.self.matrix.values : InRange(res.self.matrix.values[p])

\* m(), n(): global number of rows and columns.
m(self) == self.matrix.rows

n(self) == self.matrix.cols

\* The sparsity descriptions handed to constructors and reinit: empty, full,
\* diagonal and lower triangular.
Patterns(mm, nn) ==
  { {},
    Positions(mm, nn),
    {p \in Positions(mm, nn) : p[1] = p[2]},
    {p \in Positions(mm, nn) : p[2] <= p[1]} }

\* compress without the test of the flag.
compress_always(self) ==
  Result(Object(self.column_space_map,
                fillComplete(self.matrix, self.column_space_map),
                TRUE),
         "ok", 0, TRUE)

\* compress(operation)
compress(self) ==
  IF ~self.compressed
    THEN Result(Object(self.column_space_map,
                       fillComplete(self.matrix, self.column_space_map),
                       TRUE),
                "ok", 0, TRUE)
    ELSE Result(self, "ok", 0, FALSE)

\* resume_fill()
resume_fill(self) ==
  IF self.compressed
    THEN Result(Object(self.column_space_map, resumeFill(self.matrix), FALSE),
                "ok", 0, FALSE)
    ELSE Result(self, "ok", 0, FALSE)

\* clear()
clear(self) == Result(Object(0, MatrixFromGraph(0, 0, {}), TRUE), "ok", 0, FALSE)

\* An operator=(d) that drops the stored positions with the values.
operator_assign_emptying(self, d) ==
  IF d # 0 THEN Fail(self, "ExcScalarAssignmentOnlyForZeroValue")
  ELSE Result(Object(self.column_space_map,
                     [resumeFill(self.matrix) EXCEPT !.values = EmptyValues],
                     FALSE),
              "ok", 0, FALSE)

\* operator=(d)
operator_assign(self, d) ==
  IF d # 0 THEN Fail(self, "ExcScalarAssignmentOnlyForZeroValue")
  ELSE LET M1 == IF self.compressed THEN resumeFill(self.matrix)
                 ELSE self.matrix
       IN Result(Object(self.column_space_map, setAllToScalar(M1, 0), FALSE),
                 "ok", 0, FALSE)

\* operator*= that asserts the fill state instead of restoring it.
operator_mul_asserting(self, a) ==
  IF ~self.matrix.isFillComplete THEN Fail(self, "ExcMatrixNotCompressed")
  ELSE Result(Object(self.column_space_map, scale(self.matrix, a),
                     self.compressed),
              "ok", 0, FALSE)

\* operator*=(a); fillComplete() without maps takes the row map as domain.
operator_mul(self, a) ==
  LET M1 == IF self.compressed THEN resumeFill(self.matrix) ELSE self.matrix
      M2 == scale(M1, a)
  IN Result(Object(self.column_space_map, fillComplete(M2, M2.rows), TRUE),
            "ok", 0, TRUE)

\* scale(1.0 / a) on values that a divides.
scaleInverse(M, a) ==
  [M EXCEPT !.values =
     [p \in DOMAIN @ |-> IF @[p] = NaN THEN NaN ELSE @[p] \div a]]

\* operator/=(a)
operator_div(self, a) ==
  IF a = 0 THEN Fail(self, "ExcDivideByZero")
  ELSE LET M1 == IF self.compressed THEN resumeFill(self.matrix)
                 ELSE self.matrix
           M2 == scaleInverse(M1, a)
       IN Result(Object(self.column_space_map, fillComplete(M2, M2.rows), TRUE),
                 "ok", 0, TRUE)

\* The entries of a row that are not zero, in order.
NonZero(ents) == SelectSeq(ents, LAMBDA e : e[2] # 0)

\* set and add that never resume the fill.
ResumeNever(self) == self

\* "If the matrix is marked as compressed, we need to call resumeFill()
\* first": the first step of set and add after the row check.
ResumeIfNeeded(self) ==
  IF self.compressed \/ self.matrix.isFillComplete
    THEN Object(self.column_space_map, resumeFill(self.matrix), FALSE)
    ELSE self

\* set whose row check is on the rows the process owns.
set_owned_only(self, row, ents, elide) ==
  IF row \notin self.matrix.rowMap THEN Fail(self, "ExcIndexRange(row)")
  ELSE IF elide /\ \E j \in 1 .. Len(ents) : ~IsFinite(ents[j][2])
    THEN Fail(self, "ExcNumberNotFinite")
  ELSE LET used == IF elide THEN NonZero(ents) ELSE ents
           s1 == ResumeIfNeeded(self)
           M2 == IF ~s1.matrix.isStaticGraph
                   THEN insertGlobalValues(s1.matrix, row, used)
                   ELSE replaceGlobalValues(s1.matrix, row, used)
       IN Result(Object(s1.column_space_map, M2, s1.compressed), "ok", 0, FALSE)

\* set that inserts whether the graph is static or not.
setInserting(self, row, ents, elide) ==
  IF ~(row < m(self)) THEN Fail(self, "ExcIndexRange(row)")
  ELSE IF elide /\ \E j \in 1 .. Len(ents) : ~IsFinite(ents[j][2])
    THEN Fail(self, "ExcNumberNotFinite")
  ELSE LET used == IF elide THEN NonZero(ents) ELSE ents
           s1 == ResumeIfNeeded(self)
       IN Result(Object(s1.column_space_map,
                        insertGlobalValues(s1.matrix, row, used),
                        s1.compressed),
                 "ok", 0, FALSE)

\* set(row, n_cols, col_indices, values, elide_zero_values); ents is the
\* sequence of <<col_indices[j], values[j]>>.
set(self, row, ents, elide) ==
  IF ~(row < m(self)) THEN Fail(self, "ExcIndexRange(row)")
  ELSE IF elide /\ \E j \in 1 .. Len(ents) : ~IsFinite(ents[j][2])
    THEN Fail(self, "ExcNumberNotFinite")
  ELSE LET used == IF elide THEN NonZero(ents) ELSE ents
           s1 == ResumeIfNeeded(self)
           M2 == IF ~s1.matrix.isStaticGraph
                   THEN insertGlobalValues(s1.matrix, row, used)
                   ELSE replaceGlobalValues(s1.matrix, row, used)
       IN Result(Object(s1.column_space_map, M2, s1.compressed), "ok", 0, FALSE)

\* The loop of add that fills col_indices_array and values_array: the first
\* assertion that fails from entry j on, or "ok".  n_columns counts the
\* entries written so far.
RECURSIVE AddFill(_, _, _, _, _, _)
AddFill(ents, j, n_columns, elide, n_zero_entries, ncols) ==
  IF j > Len(ents) THEN "ok"
  ELSE LET col == ents[j][1]
           v == ents[j][2]
       IN IF elide /\ v = 0
            THEN AddFill(ents, j + 1, n_columns, elide, n_zero_entries, ncols)
          ELSE IF ~IsFinite(v) THEN "ExcNumberNotFinite"
          ELSE IF ~(col < ncols) THEN "ExcIndexRange(col)"
          ELSE IF elide /\ ~(n_columns < n_zero_entries)
            THEN "ExcIndexRange(n_columns)"
          ELSE AddFill(ents, j + 1, n_columns + 1, elide, n_zero_entries, ncols)

\* The rows of the block form of set from row i on: each is a single-row set
\* on what the rows before it left; the first that fails stops the loop.
RECURSIVE SetRows(_, _, _, _, _)
SetRows(self, indices, block, i, elide) ==
  IF i > Len(indices) THEN Result(self, "ok", 0, FALSE)
  ELSE LET ents == [k \in 1 .. Len(indices) |-> <<indices[k], block[i][k]>>]
           res == set(self, indices[i], ents, elide)
       IN IF res.err # "ok" THEN res
          ELSE SetRows(res.self, indices, block, i + 1, elide)

\* set(indices, values, elide_zero_values); block is the sequence of the rows
\* of values, block_n its number of columns.
set_block(self, indices, block, block_n, elide) ==
  IF Len(indices) # Len(block) THEN Fail(self, "ExcDimensionMismatch")
  ELSE IF Len(block) # block_n THEN Fail(self, "ExcNotQuadratic")
  ELSE SetRows(self, indices, block, 1, elide)

\* add whose loop asserts nothing.
add_unchecked(self, row, ents, elide) ==
  IF ~(row < m(self)) THEN Fail(self, "ExcIndexRange(row)")
  ELSE LET s1 == ResumeIfNeeded(self)
           n_cols == Len(ents)
           n_zero_entries ==
             IF elide
               THEN Cardinality({j \in 1 .. n_cols : ents[j][2] = 0})
               ELSE 0
           used == IF elide THEN NonZero(ents) ELSE ents
       IN IF n_zero_entries = n_cols THEN Result(s1, "ok", 0, FALSE)
          ELSE Result(Object(s1.column_space_map,
                             sumIntoGlobalValues(s1.matrix, row, used),
                             s1.compressed),
                      "ok", 0, FALSE)

\* add(row, n_cols, col_indices, values, elide_zero_values, sorted)
add(self, row, ents, elide) ==
  IF ~(row < m(self)) THEN Fail(self, "ExcIndexRange(row)")
  ELSE LET s1 == ResumeIfNeeded(self)
           n_cols == Len(ents)
           n_zero_entries ==
             IF elide
               THEN Cardinality({j \in 1 .. n_cols : ents[j][2] = 0})
               ELSE 0
           filled == AddFill(ents, 1, 0, elide, n_zero_entries, n(s1))
           used == IF elide THEN NonZero(ents) ELSE ents
       IN IF n_zero_entries = n_cols THEN Result(s1, "ok", 0, FALSE)
          ELSE IF filled # "ok" THEN Fail(s1, filled)
          ELSE Result(Object(s1.column_space_map,
                             sumIntoGlobalValues(s1.matrix, row, used),
                             s1.compressed),
                      "ok", 0, FALSE)

\* reinit_matrix(row_partitioning, column_partitioning, sparsity_pattern,
\* exchange_data, communicator, column_space_map, matrix) on one process.
\* rowsz and colsz are the sizes of the two partitionings, the sparsity
\* description is mm x nn with the positions of pattern.  With and without
\* exchange_data the matrix is built on a finalized graph of the pattern.
reinit_matrix(rowsz, colsz, mm, nn, pattern, exchange_data) ==
  IF mm # rowsz \/ nn # colsz
    THEN [err |-> "ExcDimensionMismatch", column_space_map |-> colsz,
          matrix |-> NullMatrix]
    ELSE [err |-> "ok", column_space_map |-> colsz,
          matrix |-> MatrixFromGraph(rowsz, colsz, pattern)]

\* A matrix on the finalized graph of the rows this process owns.
MatrixFromGraphOn(owned, mm, nn, pattern) ==
  [MatrixFromGraph(mm, nn, {p \in pattern : p[1] \in owned})
     EXCEPT !.rowMap = owned]

\* getMinGlobalIndex(), getMaxGlobalIndex() of the row map.
MinGlobalIndex(owned) == CHOOSE r \in owned : \A q \in owned : r <= q

MaxGlobalIndex(owned) == CHOOSE r \in owned : \A q \in owned : q <= r

\* The entries of a set of columns in ascending order.
RECURSIVE SortedSeq(_)
SortedSeq(S) ==
  IF S = {} THEN << >>
  ELSE LET a == CHOOSE x \in S : \A y \in S : x <= y
       IN <<a>> \o SortedSeq(S \ {a})

\* sparsity_pattern.row_length(row).
row_length(pattern, row) == Cardinality({p \in pattern : p[1] = row})

\* The rows of the process, among those walked, that are longer than the
\* capacity n_entries_per_row gives them: local row k is the k-th row of the
\* row map in ascending order.  The graph refuses the insertion into such a
\* row.
Refused(owned, n_entries_per_row, pattern, walked) ==
  LET local == SortedSeq(owned)
  IN {local[k] : k \in {i \in 1 .. Len(local) :
                          /\ local[i] \in walked
                          /\ row_length(pattern, local[i]) >
                               n_entries_per_row[i]}}

\* n_entries_per_row of the generic reinit_matrix: one entry for each row from
\* first_row up to last_row, at the index row - first_row.
n_entries_per_row_static(owned, pattern) ==
  LET first_row == MinGlobalIndex(owned)
      last_row == MaxGlobalIndex(owned) + 1
  IN [k \in 1 .. last_row - first_row |->
        row_length(pattern, first_row + k - 1)]

\* The rows for which the generic reinit_matrix calls insertGlobalIndices:
\* those from first_row up to last_row that are not empty; none if the graph
\* constructor has rejected n_entries_per_row.
inserted_rows_static(owned, pattern) ==
  LET first_row == MinGlobalIndex(owned)
      last_row == MaxGlobalIndex(owned) + 1
  IN IF last_row - first_row # Cardinality(owned) THEN {}
     ELSE {row \in first_row .. last_row - 1 : row_length(pattern, row) # 0}

\* reinit_matrix without exchange_data for a sparsity description that is not
\* a DynamicSparsityPattern, on the process that owns the rows of owned.  The
\* rows from first_row up to last_row are walked: n_entries_per_row has one
\* entry for each, and the graph constructor takes one entry for each row of
\* the row map, so a row partitioning with a gap is rejected.  Rows of other
\* processes that are inserted go to their owners when the graph is
\* finalized.
reinit_matrix_static(owned, colsz, mm, nn, pattern) ==
  LET n_entries_per_row == n_entries_per_row_static(owned, pattern)
      inserted == {p \in pattern :
                     p[1] \in inserted_rows_static(owned, pattern)}
  IN IF Len(n_entries_per_row) # Cardinality(owned)
       THEN [err |-> "std::invalid_argument", column_space_map |-> colsz,
             matrix |-> NullMatrix]
     ELSE [err |-> "ok", column_space_map |-> colsz,
           matrix |-> MatrixFromGraphOn(owned, mm, nn, inserted)]

\* An IndexSet: size() is the size of the index space, elements the indices
\* it holds.  A default-constructed one has size 0.
IndexSet(size, elements) == [size |-> size, elements |-> elements]

\* The row index set walked as it is given.
relevant_rows_as_given(row_index_set, mm) == row_index_set.elements

\* relevant_rows of the DynamicSparsityPattern form: the row index set of the
\* pattern, all rows of the matrix if its size() is 0.
relevant_rows(row_index_set, mm) ==
  IF row_index_set.size = 0 THEN 0 .. mm - 1 ELSE row_index_set.elements

\* n_entries_per_row of the DynamicSparsityPattern form: one entry, zero at
\* first, for each row of the row map; the lengths of the relevant rows that
\* the process owns are written one after the other from the first entry on.
n_entries_per_row_dynamic(owned, pattern, relevant) ==
  LET walked == SortedSeq(relevant \cap owned)
  IN [own \in 1 .. Cardinality(owned) |->
        IF own <= Len(walked) THEN row_length(pattern, walked[own]) ELSE 0]

\* The rows for which the DynamicSparsityPattern form calls
\* insertGlobalIndices: the relevant rows that are not empty, in ascending
\* order up to the first one the graph refuses.
inserted_rows_dynamic(owned, pattern, relevant) ==
  LET refused == Refused(owned,
                         n_entries_per_row_dynamic(owned, pattern, relevant),
                         pattern, relevant)
  IN {row \in relevant : /\ row_length(pattern, row) # 0
                         /\ \A q \in refused : row <= q}

\* reinit_matrix without exchange_data for a DynamicSparsityPattern: the
\* relevant rows are walked; n_entries_per_row has one entry for each row of
\* the row map.
reinit_matrix_dynamic(owned, colsz, mm, nn, pattern, row_index_set) ==
  LET relevant == relevant_rows(row_index_set, mm)
      n_entries_per_row == n_entries_per_row_dynamic(owned, pattern, relevant)
      inserted == {p \in pattern :
                     p[1] \in inserted_rows_dynamic(owned, pattern, relevant)}
  IN IF Refused(owned, n_entries_per_row, pattern, relevant) # {}
       THEN [err |-> "std::runtime_error", column_space_map |-> colsz,
             matrix |-> NullMatrix]
     ELSE [err |-> "ok", column_space_map |-> colsz,
           matrix |-> MatrixFromGraphOn(owned, mm, nn, inserted)]

\* reinit(row_partitioning, col_partitioning, sparsity_pattern, communicator,
\* exchange_data) on one process of several; with exchange_data the graph is
\* that of an intermediate distributed sparsity pattern.  index_set is the
\* row index set of a DynamicSparsityPattern.
reinit_rows(self, owned, colsz, mm, nn, pattern, dynamic, index_set, exchange) ==
  LET built ==
        IF exchange
          THEN [err |-> "ok", column_space_map |-> colsz,
                matrix |-> MatrixFromGraphOn(owned, mm, nn, pattern)]
        ELSE IF dynamic
          THEN reinit_matrix_dynamic(owned, colsz, mm, nn, pattern, index_set)
        ELSE reinit_matrix_static(owned, colsz, mm, nn, pattern)
  IN IF built.err # "ok"
       THEN Fail(Object(built.column_space_map, built.matrix, self.compressed),
                 built.err)
       ELSE compress(Object(built.column_space_map, built.matrix, FALSE))

\* reinit that carries the old values over to the positions it keeps.
reinitKeepingValues(self, rowsz, colsz, mm, nn, pattern, exchange_data) ==
  LET built == reinit_matrix(rowsz, colsz, mm, nn, pattern, exchange_data)
      kept == [p \in DOMAIN built.matrix.values |->
                 IF p \in DOMAIN self.matrix.values
                   THEN self.matrix.values[p] ELSE 0]
  IN IF built.err # "ok"
       THEN Fail(Object(built.column_space_map, built.matrix, self.compressed),
                 built.err)
       ELSE compress(Object(built.column_space_map,
                            [built.matrix EXCEPT !.values = kept], FALSE))

\* reinit(row_partitioning, col_partitioning, sparsity_pattern, communicator,
\* exchange_data)
reinit(self, rowsz, colsz, mm, nn, pattern, exchange_data) ==
  LET built == reinit_matrix(rowsz, colsz, mm, nn, pattern, exchange_data)
  IN IF built.err # "ok"
       THEN Fail(Object(built.column_space_map, built.matrix, self.compressed),
                 built.err)
       ELSE compress(Object(built.column_space_map, built.matrix, FALSE))

\* reinit(sparsity_pattern): the serial form, complete index sets.
reinit_serial(self, mm, nn, pattern) ==
  reinit(self, mm, nn, mm, nn, pattern, FALSE)

\* reinit(const SparsityPattern<MemorySpace> &): adopts the graph.
reinit_graph(self, mm, nn, pattern) ==
  compress(Object(nn, MatrixFromGraph(mm, nn, pattern), FALSE))

\* copy_from(source); same says that source is this object.  The copy is
\* made of a fill-complete source and is a fill-complete matrix on the
\* source's graph; the copy constructor of the underlying matrix throws for
\* a source that is not fill-complete, after matrix and column_space_map
\* were reset.
copy_from(self, source, same) ==
  IF same THEN Result(self, "ok", 0, FALSE)
  ELSE IF ~source.matrix.isFillComplete
    THEN Fail(Object(0, NullMatrix, self.compressed), "std::invalid_argument")
  ELSE Result(Object(source.matrix.cols,
                     [source.matrix EXCEPT !.isStaticGraph = TRUE],
                     source.compressed),
              "ok", 0, FALSE)

\* add(factor, source): the sum that the underlying add returns is not
\* assigned to anything.
add_matrix(self, factor, source) ==
  IF m(source) # m(self) \/ n(source) # n(self)
    THEN Fail(self, "ExcDimensionMismatch")
  ELSE IF source.matrix.rowMap # self.matrix.rowMap
    THEN Fail(self, "ExcMessage(rows)")
  ELSE IF ~(self.matrix.isFillComplete /\ source.matrix.isFillComplete)
    THEN Fail(self, "ExcMessage(filled)")
  ELSE Result(self, "ok", 0, FALSE)

\* A row of a dealii::SparsityPattern as it is stored: ascending columns, in
\* a square pattern the diagonal first.
StoredRow(cols, r, square) ==
  IF square /\ r \in cols THEN <<r>> \o SortedSeq(cols \ {r})
  ELSE SortedSeq(cols)

\* The rows of a pattern (or of a matrix) one after the other, as the
\* iterators walk them.
RECURSIVE Flat(_)
Flat(rows) == IF rows = << >> THEN << >> ELSE Head(rows) \o Flat(Tail(rows))

\* begin(row) and end(row) as places in that storage.
row_begin(rows, row) == 1 + Len(Flat(SubSeq(rows, 1, row)))

row_end(rows, row) == row_begin(rows, row) + Len(rows[row + 1])

\* while (select_index->column() < it->column() &&
\*        select_index != sparsity_pattern.end(row)) ++select_index;
\* the iterator is dereferenced before it is compared with end(row): behind
\* the last entry of the pattern that is ExcInvalidIterator (0 here), at the
\* end of another row it reads the first column of the row that follows.
RECURSIVE AdvanceSelect(_, _, _, _)
AdvanceSelect(sp, select_index, stop, column) ==
  IF select_index > Len(sp) THEN 0
  ELSE IF sp[select_index] < column /\ select_index # stop
    THEN AdvanceSelect(sp, select_index + 1, stop, column)
  ELSE select_index

\* while (it->column() < select_index->column() &&
\*        it != dealii_sparse_matrix.end(row)) ++it;
RECURSIVE AdvanceIt(_, _, _, _)
AdvanceIt(ref, it, stop, column) ==
  IF it > Len(ref) THEN 0
  ELSE IF ref[it][1] < column /\ it # stop
    THEN AdvanceIt(ref, it + 1, stop, column)
  ELSE it

\* What the loop over one row ends with: out holds the <<column, value>>
\* pairs put into row_indices and values, read_end says that an iterator was
\* dereferenced at or behind the end of its row, steps counts the passes of
\* the while loop.
Merged(e, out, read_end, steps) ==
  [err |-> e, out |-> out, read_end |-> read_end, steps |-> steps]

\* The while loop over one row.  An inner loop that stops at the end of the
\* row has dereferenced the iterator there.
RECURSIVE MergeRow(_, _, _, _, _, _, _, _)
MergeRow(ref, sp, it, select_index, it_end, select_end, drop_tolerance, out) ==
  IF it = it_end \/ select_index = select_end
    THEN Merged("ok", out, FALSE, 0)
  ELSE LET s1 == AdvanceSelect(sp, select_index, select_end, ref[it][1])
       IN IF s1 = 0 THEN Merged("ExcInvalidIterator", out, TRUE, 1)
          ELSE LET i1 == AdvanceIt(ref, it, it_end, sp[s1])
               IN IF i1 = 0 THEN Merged("ExcInvalidIterator", out, TRUE, 1)
                  ELSE IF i1 = it_end THEN Merged("ok", out, TRUE, 1)
                  ELSE LET rest ==
                             MergeRow(ref, sp, i1 + 1, s1 + 1, it_end,
                                      select_end, drop_tolerance,
                                      IF ref[i1][2] > drop_tolerance
                                        THEN Append(out, ref[i1])
                                        ELSE out)
                       IN Merged(rest.err, rest.out,
                                 rest.read_end \/ s1 >= select_end,
                                 rest.steps + 1)

\* The body of the loop over the rows for one row: the diagonal of a square
\* pattern first, then the while loop.  reference is the dense reference
\* matrix as rows of <<column, value>> pairs, sparsity the sparsity pattern
\* as rows of columns.
CopiedRow(reference, sparsity, ncols, row, drop_tolerance) ==
  LET ref == Flat(reference)
      sp == Flat(sparsity)
      it == row_begin(reference, row)
      select_index == row_begin(sparsity, row)
      it_end == row_end(reference, row)
      select_end == row_end(sparsity, row)
  IN IF Len(sparsity) # ncols
       THEN MergeRow(ref, sp, it, select_index, it_end, select_end,
                     drop_tolerance, << >>)
     ELSE IF it > Len(ref) THEN Merged("ExcInvalidIterator", << >>, TRUE, 0)
     ELSE IF ref[it][1] # row
       THEN Merged("ExcDimensionMismatch", << >>, it = it_end, 0)
     ELSE MergeRow(ref, sp, it + 1, select_index + 1, it_end, select_end,
                   drop_tolerance,
                   IF ref[it][2] > drop_tolerance THEN <<ref[it]>> ELSE << >>)

\* matrix->getLocalMaxNumRowEntries(): the length of the longest row.
getLocalMaxNumRowEntries(M) ==
  LET lengths == {row_length(DOMAIN M.values, r) : r \in 0 .. M.rows}
  IN CHOOSE l \in lengths : \A k \in lengths : k <= l

\* What a write behind the end of row_indices and values comes to: the run
\* is stopped, or it goes on with what was written.
OverflowOutcomes == {"stopped", "unnoticed"}

\* The loop over the rows from row on, each followed by its set, and the
\* compress at the end; every row is of this process.  row_indices and
\* values have maximum_row_length entries; the graph of the matrix is fixed,
\* so that length stays what it was before the loop.
RECURSIVE CopyRows(_, _, _, _, _, _, _)
CopyRows(self, reference, sparsity, ncols, drop_tolerance, row, overflow) ==
  IF row = Len(reference) THEN compress(self)
  ELSE LET c == CopiedRow(reference, sparsity, ncols, row, drop_tolerance)
           maximum_row_length == getLocalMaxNumRowEntries(self.matrix)
       IN IF Len(c.out) > maximum_row_length /\ overflow = "stopped"
            THEN Fail(self, "out of bounds")
          ELSE IF c.err # "ok" THEN Fail(self, c.err)
          ELSE CopyRows(set(self, row, c.out, FALSE).self, reference, sparsity,
                        ncols, drop_tolerance, row + 1, overflow)

\* get_sparsity_pattern() of the reference matrix, and the positions of a
\* pattern.
PatternOf(reference) ==
  [r \in 1 .. Len(reference) |->
     [k \in 1 .. Len(reference[r]) |-> reference[r][k][1]]]

PositionsOf(sparsity) ==
  UNION {{<<r - 1, sparsity[r][k]>> : k \in 1 .. Len(sparsity[r])} :
           r \in 1 .. Len(sparsity)}

\* reinit(row_parallel_partitioning, col_parallel_partitioning,
\* dealii_sparse_matrix, communicator, drop_tolerance, copy_values,
\* use_this_sparsity) with complete partitionings; use says that
\* use_this_sparsity is given, and sparsity is that pattern.  The matrix is
\* built anew only if use_this_sparsity is not given; a matrix that is null
\* then is dereferenced for maximum_row_length.  overflow is what a write
\* behind the end of the two buffers comes to.
reinit_from_matrix(self, reference, ncols, use, sparsity, drop_tolerance, copy_values, overflow) ==
  LET n_rows == Len(reference)
      sparsity_pattern == IF use THEN sparsity ELSE PatternOf(reference)
      positions == PositionsOf(sparsity_pattern)
      anew == /\ \/ self.matrix.null
                 \/ m(self) # n_rows
                 \/ Cardinality(DOMAIN self.matrix.values)
                      # Cardinality(positions)
                 \/ copy_values
              /\ ~use
      r1 == IF anew
              THEN reinit(self, n_rows, ncols, n_rows, ncols, positions, FALSE)
              ELSE Result(self, "ok", 0, FALSE)
  IN IF ~copy_values \/ r1.err # "ok" THEN r1
     ELSE IF r1.self.matrix.null THEN Fail(r1.self, "null dereference")
     ELSE CopyRows(r1.self, reference, sparsity_pattern, ncols,
                   drop_tolerance, 0, overflow)

\* The checks of vmult without the test of the fill state.
VmultChecksNoState(self, alias, srcN, dstN) ==
  IF alias THEN "ExcSourceEqualsDestination"
  ELSE IF srcN # self.matrix.domainMap THEN "ExcColMapMissmatch"
  ELSE IF dstN # self.matrix.rows THEN "ExcDomainMapMissmatch"
  ELSE "ok"

\* Checks of a multiply that look at the fill state only.
ChecksFillStateOnly(self, alias, srcN, dstN) ==
  IF ~self.matrix.isFillComplete THEN "ExcMatrixNotCompressed" ELSE "ok"

\* The checks of vmult and vmult_add; vectors are given by the size of
\* their maps, alias says that src and dst are the same object.
VmultChecks(self, alias, srcN, dstN) ==
  IF alias THEN "ExcSourceEqualsDestination"
  ELSE IF ~self.matrix.isFillComplete THEN "ExcMatrixNotCompressed"
  ELSE IF srcN # self.matrix.domainMap THEN "ExcColMapMissmatch"
  ELSE IF dstN # self.matrix.rows THEN "ExcDomainMapMissmatch"
  ELSE "ok"

\* The checks of Tvmult and Tvmult_add.
TvmultChecks(self, alias, srcN, dstN) ==
  IF alias THEN "ExcSourceEqualsDestination"
  ELSE IF ~self.matrix.isFillComplete THEN "ExcMatrixNotCompressed"
  ELSE IF dstN # self.matrix.domainMap THEN "ExcColMapMissmatch"
  ELSE IF srcN # self.matrix.rows THEN "ExcDomainMapMissmatch"
  ELSE "ok"

vmult(self, alias, srcN, dstN) ==
  Result(self, VmultChecks(self, alias, srcN, dstN), 0, FALSE)

Tvmult(self, alias, srcN, dstN) ==
  Result(self, TvmultChecks(self, alias, srcN, dstN), 0, FALSE)

vmult_add(self, alias, srcN, dstN) ==
  Result(self, VmultChecks(self, alias, srcN, dstN), 0, FALSE)

Tvmult_add(self, alias, srcN, dstN) ==
  Result(self, TvmultChecks(self, alias, srcN, dstN), 0, FALSE)

\* The value of the matrix at row i, column j: zero where nothing is stored.
Entry(M, i, j, trans) ==
  LET p == IF trans THEN <<j, i>> ELSE <<i, j>>
  IN IF p \in DOMAIN M.values THEN M.values[p] ELSE 0

\* Row i of the matrix (of its transpose with trans) times the first k
\* entries of x.  Vectors are sequences: entry i + 1 belongs to index i.
RECURSIVE RowTimes(_, _, _, _, _)
RowTimes(M, i, x, trans, k) ==
  IF k = 0 THEN 0
  ELSE Plus(RowTimes(M, i, x, trans, k - 1),
            Times(Entry(M, i, k - 1, trans), x[k]))

\* matrix->apply(X, Y, mode, alpha = 1, beta): Y = beta * Y + op(A) * X.
apply(M, X, Y, trans, beta) ==
  [i \in 1 .. Len(Y) |->
     Plus(Times(beta, Y[i]), RowTimes(M, i - 1, X, trans, Len(X)))]

\* What dst holds after vmult, Tvmult, vmult_add and Tvmult_add: the asserts
\* come before the call of apply.
vmult_dst(self, alias, src, dst) ==
  IF VmultChecks(self, alias, Len(src), Len(dst)) = "ok"
    THEN apply(self.matrix, src, dst, FALSE, 0)
    ELSE dst

Tvmult_dst(self, alias, src, dst) ==
  IF TvmultChecks(self, alias, Len(src), Len(dst)) = "ok"
    THEN apply(self.matrix, src, dst, TRUE, 0)
    ELSE dst

vmult_add_dst(self, alias, src, dst) ==
  IF VmultChecks(self, alias, Len(src), Len(dst)) = "ok"
    THEN apply(self.matrix, src, dst, FALSE, 1)
    ELSE dst

Tvmult_add_dst(self, alias, src, dst) ==
  IF TvmultChecks(self, alias, Len(src), Len(dst)) = "ok"
    THEN apply(self.matrix, src, dst, TRUE, 1)
    ELSE dst

\* matrix_norm_square(v); the temporary is laid out like v.
matrix_norm_square(self, vN) ==
  IF m(self) # vN THEN Fail(self, "ExcDimensionMismatch")
  ELSE IF ~self.matrix.isFillComplete THEN Fail(self, "ExcMatrixNotCompressed")
  ELSE IF self.matrix.rows # self.matrix.domainMap
    THEN Fail(self, "ExcNotQuadratic")
  ELSE vmult(self, FALSE, vN, vN)

\* matrix_scalar_product(u, v)
matrix_scalar_product(self, uN, vN) ==
  IF m(self) # uN \/ m(self) # vN THEN Fail(self, "ExcDimensionMismatch")
  ELSE IF ~self.matrix.isFillComplete THEN Fail(self, "ExcMatrixNotCompressed")
  ELSE IF self.matrix.rows # self.matrix.domainMap
    THEN Fail(self, "ExcNotQuadratic")
  ELSE vmult(self, FALSE, vN, vN)

\* frobenius_norm(); the norm itself is not computed here.
frobenius_norm(self) ==
  IF ~self.matrix.isFillComplete THEN Fail(self, "ExcMatrixNotCompressed")
  ELSE Result(self, "ok", 0, FALSE)

\* An element lookup that takes no_error for granted.
element_no_error(self, i, j, no_error) ==
  IF i \in self.matrix.rowMap /\ <<i, j>> \in DOMAIN self.matrix.values
       /\ self.matrix.isFillComplete
    THEN Result(self, "ok", self.matrix.values[<<i, j>>], FALSE)
    ELSE Result(self, "ok", 0, FALSE)

\* An element lookup that asks for fill-complete storage before anything else.
element_state_first(self, i, j, no_error) ==
  IF ~self.matrix.isFillComplete THEN Fail(self, "ExcMatrixNotCompressed")
  ELSE element_no_error(self, i, j, TRUE)

\* matrix->getColMap(): the column map given at construction, or the one the
\* graph made when it was completed, which holds the columns of the rows of
\* this process.
ColMap(M) ==
  IF M.isStaticGraph
    THEN {p[2] : p \in {q \in DOMAIN M.values : q[1] \in M.rowMap}}
    ELSE 0 .. M.cols - 1

\* element(i, j, no_error); operator() calls it with no_error = false and
\* el with no_error = true.
element(self, i, j, no_error) ==
  IF i \notin self.matrix.rowMap \/ j \notin ColMap(self.matrix)
    THEN IF no_error THEN Result(self, "ok", 0, FALSE)
         ELSE Fail(self, "ExcAccessToNonLocalElement")
  ELSE IF ~self.matrix.isFillComplete THEN Fail(self, "ExcMatrixNotCompressed")
  ELSE IF <<i, j>> \notin DOMAIN self.matrix.values
    THEN IF no_error THEN Result(self, "ok", 0, FALSE)
         ELSE Fail(self, "ExcInvalidIndex")
  ELSE Result(self, "ok", self.matrix.values[<<i, j>>], FALSE)

\* A default constructor that finalizes the empty matrix.
DefaultConstructedFinalized ==
  Object(0, fillComplete(MatrixFromGraph(0, 0, {}), 0), TRUE)

\* SparseMatrix(): compressed = false.
DefaultConstructed == Object(0, MatrixFromGraph(0, 0, {}), FALSE)

\* SparseMatrix(m, n, n_max_entries_per_row) and the per-row form.
DimsConstructed(mm, nn) == Object(nn, MatrixFromMaps(mm, nn), FALSE)

\* SparseMatrix(row_partitioning, col_partitioning, communicator,
\* n_max_entries_per_row): the rows of owned are this process's.
PartitionConstructed(owned, mm, nn) ==
  Object(nn, [MatrixFromMaps(mm, nn) EXCEPT !.rowMap = owned], FALSE)

\* A constructor that adopts the graph and leaves the compress to the caller.
PatternConstructedOpen(mm, nn, pattern) ==
  Object(nn, MatrixFromGraph(mm, nn, pattern), FALSE)

\* SparseMatrix(const SparsityPattern &): adopts the graph, sets
\* compressed = false and calls compress(VectorOperation::add).
PatternConstructed(mm, nn, pattern) ==
  compress(Object(nn, MatrixFromGraph(mm, nn, pattern), FALSE)).self

\* Values and scalars handed in by callers.
InputVals == 0 .. MaxVal

Scalars == 0 .. 2

\* The <<column, value>> rows handed to set and add: no entry or one.
Entries(colset, valset) == {<< >>} \cup {<<e>> : e \in colset \X valset}

\* Sizes of the sparsity descriptions and of the constructors' arguments.
RowCounts == 1 .. MaxRows

ColCounts == 1 .. MaxCols

\* The arguments of the last call, as far as they are kept: row and col are
\* the indices given, ents the <<column, value>> pairs, flag is
\* elide_zero_values or no_error, indices and block are those of the block
\* form of set, owned and pattern are the row partitioning and the sparsity
\* description given to reinit (dynamic: it is a DynamicSparsityPattern with
\* the row index set row_index_set), relevant_rows, n_entries_per_row and
\* inserted_rows are the rows reinit_matrix walked, the capacities it gave the
\* graph constructor and the rows it called insertGlobalIndices for, before holds the values stored when a
\* single-row set or add was called.
NoArgs ==
  [row |-> 0, col |-> 0, ents |-> << >>, flag |-> FALSE, indices |-> << >>,
   block |-> << >>, owned |-> {}, pattern |-> {}, dynamic |-> FALSE,
   before |-> EmptyValues, src |-> << >>, dst |-> << >>, result |-> << >>,
   on |-> "this", factor |-> 0, reference |-> << >>, sparsity |-> << >>,
   written |-> << >>, row_index_set |-> [size |-> 0, elements |-> {}],
   relevant_rows |-> {}, n_entries_per_row |-> << >>, inserted_rows |-> {}]

ReinitArgs(owned, pattern, dynamic, exchange_data) ==
  [NoArgs EXCEPT !.owned = owned, !.pattern = pattern, !.dynamic = dynamic,
                 !.flag = exchange_data]

\* A reinit without exchange_data from a sparsity description of mm rows.
GraphArgs(owned, pattern, dynamic, row_index_set, mm) ==
  [ReinitArgs(owned, pattern, dynamic, FALSE) EXCEPT
     !.row_index_set = row_index_set,
     !.relevant_rows =
        IF dynamic THEN relevant_rows(row_index_set, mm)
        ELSE MinGlobalIndex(owned) .. MaxGlobalIndex(owned),
     !.n_entries_per_row =
        IF dynamic
          THEN n_entries_per_row_dynamic(owned, pattern,
                                         relevant_rows(row_index_set, mm))
          ELSE n_entries_per_row_static(owned, pattern),
     !.inserted_rows =
        IF dynamic
          THEN inserted_rows_dynamic(owned, pattern,
                                     relevant_rows(row_index_set, mm))
          ELSE inserted_rows_static(owned, pattern)]

RowArgs(row, ents, elide) ==
  [NoArgs EXCEPT !.row = row, !.ents = ents, !.flag = elide,
                 !.before = matrix.values]

ElementArgs(i, j, no_error) ==
  [NoArgs EXCEPT !.row = i, !.col = j, !.flag = no_error]

BlockArgs(indices, block, elide) ==
  [NoArgs EXCEPT !.indices = indices, !.block = block, !.flag = elide]

DistArgs(row, ents, elide) ==
  [NoArgs EXCEPT !.row = row, !.ents = ents, !.flag = elide]

\* A call in a run with two objects: on says which one it was made on
\* ("this" or "other"), flag that the argument was the object itself.
PairArgs(on, same, factor) ==
  [NoArgs EXCEPT !.on = on, !.flag = same, !.factor = factor]

\* reinit from a dense reference matrix: flag is copy_values, dynamic says
\* that use_this_sparsity is given, factor is drop_tolerance, sparsity the
\* pattern that is walked, written what each row's loop collected; col is
\* set to the number of columns of the reference matrix.
CopyArgs(reference, use, sparsity, drop_tolerance, copy_values, written) ==
  [NoArgs EXCEPT !.reference = reference, !.dynamic = use,
                 !.sparsity = sparsity, !.factor = drop_tolerance,
                 !.flag = copy_values, !.written = written]

\* A multiply: flag says that src and dst are one object, result is what dst
\* holds afterwards.
MultArgs(alias, src, dst, result) ==
  [NoArgs EXCEPT !.flag = alias, !.src = src, !.dst = dst, !.result = result]

Constructed(obj) ==
  /\ column_space_map = obj.column_space_map
  /\ matrix = obj.matrix
  /\ compressed = obj.compressed
  /\ other = NoOther
  /\ procs = NoProcs

InitDefault ==
  /\ Constructed(DefaultConstructed)
  /\ lastOp = "SparseMatrix()"
  /\ finalizeIssued = FALSE

InitDims ==
  \E mm \in RowCounts, nn \in ColCounts :
    /\ Constructed(DimsConstructed(mm, nn))
    /\ lastOp = "SparseMatrix(m,n)"
    /\ finalizeIssued = FALSE

InitPattern ==
  \E mm \in RowCounts, nn \in ColCounts :
    \E pattern \in Patterns(mm, nn) :
      /\ Constructed(PatternConstructed(mm, nn, pattern))
      /\ lastOp = "SparseMatrix(pattern)"
      /\ finalizeIssued = TRUE

Init ==
  /\ (InitDefault \/ InitDims \/ InitPattern)
  /\ err = "ok"
  /\ ret = 0
  /\ repeated = FALSE
  /\ pre = [nonzero |-> FALSE, finalized |-> FALSE]
  /\ args = NoArgs

Compress ==
  /\ ~matrix.null
  /\ Do("compress", compress(Self))
  /\ args' = NoArgs

ResumeFill ==
  /\ ~matrix.null
  /\ Do("resume_fill", resume_fill(Self))
  /\ args' = NoArgs

Clear ==
  /\ Do("clear", clear(Self))
  /\ args' = NoArgs

Assign ==
  /\ ~matrix.null
  /\ \E d \in {0, 1} : Do("operator=", operator_assign(Self, d))
  /\ args' = NoArgs

Mul ==
  /\ ~matrix.null
  /\ \E a \in Scalars :
       LET res == operator_mul(Self, a)
       IN Representable(res) /\ Do("operator*=", res)
  /\ args' = NoArgs

Div ==
  /\ ~matrix.null
  /\ \E a \in Scalars :
       /\ a # 0 =>
            \A p \in DOMAIN matrix.values :
              matrix.values[p] = NaN \/ matrix.values[p] % a = 0
       /\ Do("operator/=", operator_div(Self, a))
  /\ args' = NoArgs

\* set makes no check of the columns; they are drawn from the matrix's own.
\* A value that is not finite is handed in with elide_zero_values set.
Set ==
  /\ ~matrix.null
  /\ \E row \in 0 .. m(Self), elide \in BOOLEAN :
       \E ents \in Entries(0 .. n(Self) - 1,
                           IF elide THEN InputVals \cup {NaN} ELSE InputVals) :
         LET res == set(Self, row, ents, elide)
         IN Representable(res) /\ Do("set", res)
  /\ args' = NoArgs

Add ==
  /\ ~matrix.null
  /\ \E row \in 0 .. m(Self), elide \in BOOLEAN :
       \E ents \in Entries(0 .. n(Self), InputVals \cup {NaN}) :
         LET res == add(Self, row, ents, elide)
         IN Representable(res) /\ Do("add", res)
  /\ args' = NoArgs

ReinitSerial ==
  /\ \E mm \in RowCounts, nn \in ColCounts :
       \E pattern \in Patterns(mm, nn) :
         Do("reinit", reinit_serial(Self, mm, nn, pattern))
  /\ args' = NoArgs

\* The partitionings fit the sparsity description, or one of them is one
\* index longer than the description has rows or columns.
Reinit ==
  /\ \/ \E mm \in RowCounts, nn \in ColCounts, exchange_data \in BOOLEAN :
          \E pattern \in Patterns(mm, nn) :
            Do("reinit", reinit(Self, mm, nn, mm, nn, pattern, exchange_data))
     \/ \E mm \in RowCounts, nn \in ColCounts :
          \E sz \in {<<mm + 1, nn>>, <<mm, nn + 1>>} :
            Do("reinit",
               reinit(Self, sz[1], sz[2], mm, nn, Positions(mm, nn), FALSE))
  /\ args' = NoArgs

ReinitGraph ==
  /\ \E mm \in RowCounts, nn \in ColCounts :
       \E pattern \in Patterns(mm, nn) :
         Do("reinit", reinit_graph(Self, mm, nn, pattern))
  /\ args' = NoArgs

\* The source is this object or a matrix built from a sparsity object.
CopyFrom ==
  /\ \/ ~matrix.null /\ Do("copy_from", copy_from(Self, Self, TRUE))
     \/ \E mm \in RowCounts, nn \in ColCounts :
          \E pattern \in Patterns(mm, nn) :
            Do("copy_from",
               copy_from(Self, PatternConstructed(mm, nn, pattern), FALSE))
  /\ args' = NoArgs

\* Vectors are laid out like the rows, the columns or the domain of the
\* matrix; src and dst that are one object have one layout.
VecSizes == {matrix.rows, matrix.cols, matrix.domainMap}

Vmult ==
  /\ ~matrix.null
  /\ \E srcN \in VecSizes, dstN \in VecSizes, alias \in BOOLEAN :
       /\ alias => srcN = dstN
       /\ Do("vmult", vmult(Self, alias, srcN, dstN))
  /\ args' = NoArgs

TVmult ==
  /\ ~matrix.null
  /\ \E srcN \in VecSizes, dstN \in VecSizes, alias \in BOOLEAN :
       /\ alias => srcN = dstN
       /\ Do("Tvmult", Tvmult(Self, alias, srcN, dstN))
  /\ args' = NoArgs

VmultAdd ==
  /\ ~matrix.null
  /\ \E srcN \in VecSizes, dstN \in VecSizes, alias \in BOOLEAN :
       /\ alias => srcN = dstN
       /\ Do("vmult_add", vmult_add(Self, alias, srcN, dstN))
  /\ args' = NoArgs

TVmultAdd ==
  /\ ~matrix.null
  /\ \E srcN \in VecSizes, dstN \in VecSizes, alias \in BOOLEAN :
       /\ alias => srcN = dstN
       /\ Do("Tvmult_add", Tvmult_add(Self, alias, srcN, dstN))
  /\ args' = NoArgs

MatrixNormSquare ==
  /\ ~matrix.null
  /\ \E vN \in VecSizes :
       Do("matrix_norm_square", matrix_norm_square(Self, vN))
  /\ args' = NoArgs

MatrixScalarProduct ==
  /\ ~matrix.null
  /\ \E uN \in VecSizes, vN \in VecSizes :
       Do("matrix_scalar_product", matrix_scalar_product(Self, uN, vN))
  /\ args' = NoArgs

FrobeniusNorm ==
  /\ ~matrix.null
  /\ Do("frobenius_norm", frobenius_norm(Self))
  /\ args' = NoArgs

Element ==
  /\ ~matrix.null
  /\ \E i \in 0 .. m(Self), j \in 0 .. n(Self), no_error \in BOOLEAN :
       Do("element", element(Self, i, j, no_error))
  /\ args' = NoArgs

\* ------------------------------------------- assembling one row at a time
\* The calls of set and add with several entries, on a matrix of one process.
\* Two values given to add sum up to at most MaxSum.
MaxSum == 2 * MaxVal

Storable(res) ==
  \A p \in DOMAIN res.self.matrix.values :
    LET v == res.self.matrix.values[p] IN v = NaN \/ (v >= 0 /\ v <= MaxSum)

\* The <<column, value>> rows of up to MaxLen entries.
EntrySeqs(colset, valset) ==
  UNION {[1 .. k -> colset \X valset] : k \in 0 .. MaxLen}

\* The dense blocks: k rows of l values each, every value MaxVal but for at
\* most one that is not finite.
BlockVals == {MaxVal, NaN}

Blocks ==
  LET all == UNION {[1 .. k -> [1 .. l -> BlockVals]] :
                      k \in 1 .. MaxLen, l \in 1 .. MaxLen}
  IN {b \in all :
        Cardinality({ij \in (1 .. Len(b)) \X (1 .. Len(b[1])) :
                       b[ij[1]][ij[2]] = NaN}) <= 1}

IndexSeqs(indexset) == UNION {[1 .. k -> indexset] : k \in 1 .. MaxLen}

InitRow ==
  /\ \/ InitDims
     \/ InitPattern
  /\ err = "ok"
  /\ ret = 0
  /\ repeated = FALSE
  /\ pre = [nonzero |-> FALSE, finalized |-> FALSE]
  /\ args = NoArgs

\* set makes no check of the columns; they are drawn from the matrix's own.
RowSet ==
  \E row \in 0 .. m(Self), elide \in BOOLEAN :
    \E ents \in EntrySeqs(0 .. n(Self) - 1, InputVals \cup {NaN}) :
      LET res == set(Self, row, ents, elide)
      IN /\ Storable(res)
         /\ Do("set", res)
         /\ args' = RowArgs(row, ents, elide)

RowAdd ==
  \E row \in 0 .. m(Self), elide \in BOOLEAN :
    \E ents \in EntrySeqs(0 .. n(Self), InputVals \cup {NaN}) :
      LET res == add(Self, row, ents, elide)
      IN /\ Storable(res)
         /\ Do("add", res)
         /\ args' = RowArgs(row, ents, elide)

\* An index beyond the matrix is handed to a matrix with a static graph only,
\* where the column it names is skipped.
RowSetBlock ==
  \E indices \in IndexSeqs(0 .. m(Self)), block \in Blocks, elide \in BOOLEAN :
    LET res == set_block(Self, indices, block, Len(block[1]), elide)
    IN /\ \A k \in 1 .. Len(indices) :
            indices[k] < n(Self) \/ matrix.isStaticGraph
       /\ Storable(res)
       /\ Do("set(block)", res)
       /\ args' = BlockArgs(indices, block, elide)

RowCompress ==
  /\ Do("compress", compress(Self))
  /\ args' = NoArgs

RowElement ==
  \E i \in 0 .. m(Self), j \in 0 .. n(Self), no_error \in BOOLEAN :
    /\ Do("element", element(Self, i, j, no_error))
    /\ args' = ElementArgs(i, j, no_error)

NextRow ==
  \/ RowSet
  \/ RowAdd
  \/ RowCompress
  \/ RowElement

SpecRow == InitRow /\ [][NextRow]_vars

\* The block form of set, on a matrix of one process.
NextBlock ==
  \/ RowSetBlock
  \/ RowCompress
  \/ RowElement

SpecBlock == InitRow /\ [][NextBlock]_vars

\* The multiplies with vectors that carry values, on a matrix of one process
\* with up to MultRows rows, so that the row map and the domain map differ.
\* A vector has one entry for each index of its map.
MultRows == MaxRows + 1

InitMult ==
  /\ \E mm \in 1 .. MultRows, nn \in ColCounts :
       \/ /\ Constructed(DimsConstructed(mm, nn))
          /\ lastOp = "SparseMatrix(m,n)"
          /\ finalizeIssued = FALSE
       \/ /\ \E pattern \in Patterns(mm, nn) :
               Constructed(PatternConstructed(mm, nn, pattern))
          /\ lastOp = "SparseMatrix(pattern)"
          /\ finalizeIssued = TRUE
  /\ err = "ok"
  /\ ret = 0
  /\ repeated = FALSE
  /\ pre = [nonzero |-> FALSE, finalized |-> FALSE]
  /\ args = NoArgs

Vectors(sizes) == UNION {[1 .. k -> InputVals] : k \in sizes}

MultVmult ==
  \E src \in Vectors(VecSizes), dst \in Vectors(VecSizes), alias \in BOOLEAN :
    /\ alias => src = dst
    /\ Do("vmult", vmult(Self, alias, Len(src), Len(dst)))
    /\ args' = MultArgs(alias, src, dst, vmult_dst(Self, alias, src, dst))

MultTvmult ==
  \E src \in Vectors(VecSizes), dst \in Vectors(VecSizes), alias \in BOOLEAN :
    /\ alias => src = dst
    /\ Do("Tvmult", Tvmult(Self, alias, Len(src), Len(dst)))
    /\ args' = MultArgs(alias, src, dst, Tvmult_dst(Self, alias, src, dst))

MultVmultAdd ==
  \E src \in Vectors(VecSizes), dst \in Vectors(VecSizes), alias \in BOOLEAN :
    /\ alias => src = dst
    /\ Do("vmult_add", vmult_add(Self, alias, Len(src), Len(dst)))
    /\ args' = MultArgs(alias, src, dst, vmult_add_dst(Self, alias, src, dst))

MultTvmultAdd ==
  \E src \in Vectors(VecSizes), dst \in Vectors(VecSizes), alias \in BOOLEAN :
    /\ alias => src = dst
    /\ Do("Tvmult_add", Tvmult_add(Self, alias, Len(src), Len(dst)))
    /\ args' = MultArgs(alias, src, dst, Tvmult_add_dst(Self, alias, src, dst))

NextMult ==
  \/ RowSet
  \/ RowCompress
  \/ MultVmult
  \/ MultTvmult
  \/ MultVmultAdd
  \/ MultTvmultAdd

SpecMult == InitMult /\ [][NextMult]_vars

\* Two objects: this one and other.  Both are made from one sparsity
\* pattern, whose graph they share, or from dimensions.  Every call is made
\* on one of them; copy_from and add(factor, source) take the second one as
\* their argument.
InitPair ==
  /\ \E mm \in RowCounts, nn \in ColCounts :
       \/ /\ column_space_map = nn
          /\ matrix = MatrixFromMaps(mm, nn)
          /\ compressed = FALSE
          /\ other = DimsConstructed(mm, nn)
          /\ lastOp = "SparseMatrix(m,n)"
          /\ finalizeIssued = FALSE
       \/ \E pattern \in Patterns(mm, nn) :
            /\ column_space_map = nn
            /\ matrix = PatternConstructed(mm, nn, pattern).matrix
            /\ compressed = PatternConstructed(mm, nn, pattern).compressed
            /\ other = PatternConstructed(mm, nn, pattern)
            /\ lastOp = "SparseMatrix(pattern)"
            /\ finalizeIssued = TRUE
  /\ err = "ok"
  /\ ret = 0
  /\ repeated = FALSE
  /\ pre = [nonzero |-> FALSE, finalized |-> FALSE]
  /\ args = NoArgs
  /\ procs = NoProcs

Objects == {"this", "other"}

Target(on) == IF on = "other" THEN other ELSE Self

Argument(on) == IF on = "other" THEN Self ELSE other

DoOn(on, op, res) == IF on = "other" THEN DoOther(op, res) ELSE Do(op, res)

PairSet ==
  \E on \in Objects :
    /\ ~Target(on).matrix.null
    /\ \E row \in 0 .. m(Target(on)) - 1, elide \in BOOLEAN :
         \E ents \in Entries(0 .. n(Target(on)) - 1, InputVals) :
           LET res == set(Target(on), row, ents, elide)
           IN Representable(res) /\ DoOn(on, "set", res)
    /\ args' = PairArgs(on, FALSE, 0)

PairAdd ==
  \E on \in Objects :
    /\ ~Target(on).matrix.null
    /\ \E row \in 0 .. m(Target(on)) - 1 :
         \E ents \in Entries(0 .. n(Target(on)) - 1, InputVals) :
           LET res == add(Target(on), row, ents, FALSE)
           IN Representable(res) /\ DoOn(on, "add", res)
    /\ args' = PairArgs(on, FALSE, 0)

PairAssign ==
  \E on \in Objects :
    /\ ~Target(on).matrix.null
    /\ DoOn(on, "operator=", operator_assign(Target(on), 0))
    /\ args' = PairArgs(on, FALSE, 0)

PairMul ==
  \E on \in Objects, a \in Scalars :
    /\ ~Target(on).matrix.null
    /\ LET res == operator_mul(Target(on), a)
       IN Representable(res) /\ DoOn(on, "operator*=", res)
    /\ args' = PairArgs(on, FALSE, a)

PairResumeFill ==
  \E on \in Objects :
    /\ ~Target(on).matrix.null
    /\ DoOn(on, "resume_fill", resume_fill(Target(on)))
    /\ args' = PairArgs(on, FALSE, 0)

PairCompress ==
  \E on \in Objects :
    /\ ~Target(on).matrix.null
    /\ DoOn(on, "compress", compress(Target(on)))
    /\ args' = PairArgs(on, FALSE, 0)

PairClear ==
  \E on \in Objects :
    /\ DoOn(on, "clear", clear(Target(on)))
    /\ args' = PairArgs(on, FALSE, 0)

PairCopyFrom ==
  \E on \in Objects, same \in BOOLEAN :
    /\ ~Target(on).matrix.null
    /\ ~Argument(on).matrix.null
    /\ DoOn(on, "copy_from",
            copy_from(Target(on),
                      IF same THEN Target(on) ELSE Argument(on), same))
    /\ args' = PairArgs(on, same, 0)

PairAddMatrix ==
  \E on \in Objects, factor \in Scalars :
    /\ ~Target(on).matrix.null
    /\ ~Argument(on).matrix.null
    /\ LET res == add_matrix(Target(on), factor, Argument(on))
       IN Representable(res) /\ DoOn(on, "add(factor,source)", res)
    /\ args' = PairArgs(on, FALSE, factor)

NextPair ==
  \/ PairSet
  \/ PairAdd
  \/ PairAssign
  \/ PairMul
  \/ PairResumeFill
  \/ PairCompress
  \/ PairClear
  \/ PairCopyFrom
  \/ PairAddMatrix

SpecPair == InitPair /\ [][NextPair]_vars

\* reinit from a dense reference matrix, on a matrix built on the full
\* pattern (every row has room for what the loop collects).  The reference
\* matrix and the pattern are MergeDims in size; a stored entry of the
\* reference matrix has a value of InputVals.
MergeDims == {<<MaxRows, MaxCols + 2>>, <<MaxRows + 1, MaxCols + 1>>}

\* The sparsity patterns of a size: a square one has its diagonal.
SparsityPatterns(mm, nn) ==
  {[r \in 1 .. mm |-> StoredRow(cs[r], r - 1, mm = nn)] :
     cs \in {c \in [1 .. mm -> SUBSET (0 .. nn - 1)] :
               mm = nn => \A r \in 1 .. mm : r - 1 \in c[r]}}

\* The reference matrices on a pattern.
ReferenceMatrices(sparsity) ==
  {[r \in 1 .. Len(sparsity) |->
      [k \in 1 .. Len(sparsity[r]) |-> <<sparsity[r][k], vs[<<r, k>>]>>]] :
     vs \in [{p \in (1 .. Len(sparsity)) \X (1 .. MaxCols + 2) :
                p[2] <= Len(sparsity[p[1]])} -> InputVals]}

InitCopy ==
  /\ \E d \in MergeDims :
       \E pattern \in SparsityPatterns(d[1], d[2]) :
         \E reference \in ReferenceMatrices(pattern) :
           \E sparsity \in SparsityPatterns(d[1], d[2]) :
             \E use \in BOOLEAN, tol \in InputVals, copy_values \in BOOLEAN :
               /\ ~use => sparsity = pattern
               /\ Constructed(PatternConstructed(d[1], d[2],
                                                 Positions(d[1], d[2])))
               /\ args = [CopyArgs(reference, use, sparsity, tol,
                                   copy_values, << >>) EXCEPT !.col = d[2]]
  /\ lastOp = "SparseMatrix(pattern)"
  /\ finalizeIssued = TRUE
  /\ err = "ok"
  /\ ret = 0
  /\ repeated = FALSE
  /\ pre = [nonzero |-> FALSE, finalized |-> FALSE]

\* The call with the reference matrix, pattern, tolerance and flags that the
\* run was given.
ReinitFromMatrix ==
  /\ \E overflow \in OverflowOutcomes :
       Do("reinit(matrix)",
          reinit_from_matrix(Self, args.reference, args.col, args.dynamic,
                             args.sparsity, args.factor, args.flag, overflow))
  /\ args' = [args EXCEPT !.written =
                [r \in 1 .. Len(args.reference) |->
                   CopiedRow(args.reference, args.sparsity, args.col, r - 1,
                             args.factor)]]

NextCopy == ReinitFromMatrix

SpecCopy == InitCopy /\ [][NextCopy]_vars

\* The object a move constructor or a move assignment has taken from.
MovedFrom == Object(0, NullMatrix, FALSE)

\* The matrices reinit from a dense reference matrix of mm x nn is called
\* on: one that was moved from, one on the full pattern, one on an empty
\* pattern and one with a row more.
Targets(mm, nn) ==
  {MovedFrom,
   PatternConstructed(mm, nn, Positions(mm, nn)),
   PatternConstructed(mm, nn, {}),
   PatternConstructed(mm + 1, nn, Positions(mm + 1, nn))}

InitTargets ==
  /\ \E d \in MergeDims :
       \E pattern \in SparsityPatterns(d[1], d[2]) :
         \E reference \in ReferenceMatrices(pattern) :
           \E sparsity \in SparsityPatterns(d[1], d[2]) :
             \E use \in BOOLEAN, tol \in InputVals, copy_values \in BOOLEAN :
               \E target \in Targets(d[1], d[2]) :
                 /\ ~use => sparsity = pattern
                 /\ Constructed(target)
                 /\ args = [CopyArgs(reference, use, sparsity, tol,
                                     copy_values, << >>) EXCEPT !.col = d[2]]
  /\ lastOp = "SparseMatrix"
  /\ finalizeIssued = FALSE
  /\ err = "ok"
  /\ ret = 0
  /\ repeated = FALSE
  /\ pre = [nonzero |-> FALSE, finalized |-> FALSE]

SpecTargets == InitTargets /\ [][NextCopy]_vars

\* ------------------------------------------- the processes of a communicator
\* One distributed matrix on the NumRanks processes of a communicator.  Each
\* process calls reinit with a sparsity description, and then set or add and
\* compress, up to MaxCalls compress calls.  Of the part of a process only
\* the flag compressed and the fill state of its matrix are kept; pc is where
\* the process is: "start" before reinit, "aborted" after a failed
\* assertion, "graph_finalize" in graph->fillComplete, "finalize" in
\* matrix->fillComplete, "ready" between calls; calls counts the compress
\* calls that have returned.
Ranks == 0 .. NumRanks - 1

Rank(pc, cmp, isFillComplete, calls) ==
  [pc |-> pc, compressed |-> cmp, isFillComplete |-> isFillComplete,
   calls |-> calls]

\* args.flag says that the sparsity description has another number of rows
\* or columns than the partitionings have; the arguments are the same on all
\* processes.
InitRanks ==
  /\ procs = [p \in Ranks |-> Rank("start", FALSE, FALSE, 0)]
  /\ \E mismatch \in BOOLEAN : args = [NoArgs EXCEPT !.flag = mismatch]
  /\ column_space_map = 0
  /\ matrix = NullMatrix
  /\ compressed = FALSE
  /\ other = NoOther
  /\ lastOp = "SparseMatrix()"
  /\ finalizeIssued = FALSE
  /\ err = "ok"
  /\ ret = 0
  /\ repeated = FALSE
  /\ pre = [nonzero |-> FALSE, finalized |-> FALSE]

\* A step of the processes leaves the single object of the other runs alone.
RanksStep(next) ==
  /\ procs' = next
  /\ UNCHANGED <<column_space_map, matrix, compressed, lastOp, err, ret,
                 finalizeIssued, repeated, pre, args, other>>

\* reinit_matrix up to graph->fillComplete: the two AssertDimension are made
\* on the process of rank 0 only; every process that passes builds its graph
\* and enters graph->fillComplete.
reinit_matrix_rank(p, mismatch, self) ==
  IF p = 0 /\ mismatch THEN [self EXCEPT !.pc = "aborted"]
  ELSE [self EXCEPT !.pc = "graph_finalize"]

RankReinit(p) ==
  /\ procs[p].pc = "start"
  /\ RanksStep([procs EXCEPT ![p] = reinit_matrix_rank(p, args.flag, @)])

\* graph->fillComplete returns when every process of the communicator is in
\* it; reinit then makes the matrix from the graph, sets compressed = false
\* and calls compress, which enters matrix->fillComplete.
GraphFillComplete ==
  /\ \A p \in Ranks : procs[p].pc = "graph_finalize"
  /\ RanksStep([p \in Ranks |-> Rank("finalize", FALSE, FALSE, 0)])

\* matrix->fillComplete returns when every process of the communicator is in
\* it; compress then sets compressed = true and returns.
MatrixFillComplete ==
  /\ \A p \in Ranks : procs[p].pc = "finalize"
  /\ RanksStep([p \in Ranks |->
                  Rank("ready", TRUE, TRUE, procs[p].calls + 1)])

\* The start of set and of add: the fill is resumed on the process that
\* makes the call if its matrix is marked compressed or is fill-complete.
set_rank(self) ==
  IF self.compressed \/ self.isFillComplete
    THEN [self EXCEPT !.compressed = FALSE, !.isFillComplete = FALSE]
    ELSE self

RankSet(p) ==
  /\ procs[p].pc = "ready"
  /\ RanksStep([procs EXCEPT ![p] = set_rank(@)])

\* compress on one process: matrix->fillComplete is entered only if the flag
\* of that process is not set; else the call returns.
compress_rank(self) ==
  IF ~self.compressed THEN [self EXCEPT !.pc = "finalize"]
  ELSE [self EXCEPT !.calls = @ + 1]

RankCompress(p) ==
  /\ procs[p].pc = "ready"
  /\ procs[p].calls < MaxCalls
  /\ RanksStep([procs EXCEPT ![p] = compress_rank(@)])

NextRanks ==
  \/ \E p \in Ranks : RankReinit(p)
  \/ GraphFillComplete
  \/ MatrixFillComplete
  \/ \E p \in Ranks : RankSet(p)
  \/ \E p \in Ranks : RankCompress(p)

SpecRanks == InitRanks /\ [][NextRanks]_vars

\* --------------------------------------------- one process of several
\* What is stored and what is put aside for other processes stays within
\* the values the model represents.
StorableDist(res) ==
  /\ Storable(res)
  /\ \A p \in DOMAIN res.self.matrix.nonlocals :
       LET v == res.self.matrix.nonlocals[p]
       IN v = NaN \/ (v >= 0 /\ v <= MaxVal)

\* The row partitionings of a process that owns a row, of mm rows in all.
OwnedSets(mm) == (SUBSET (0 .. mm - 1)) \ {{}}

InitPartition(mm) ==
  /\ \E owned \in OwnedSets(mm), nn \in ColCounts :
       Constructed(PartitionConstructed(owned, mm, nn))
  /\ lastOp = "SparseMatrix(partitioning)"
  /\ finalizeIssued = FALSE
  /\ err = "ok"
  /\ ret = 0
  /\ repeated = FALSE
  /\ pre = [nonzero |-> FALSE, finalized |-> FALSE]
  /\ args = NoArgs

\* A matrix of DistRows rows distributed by rows, written to by a process
\* that owns some of them.
DistRows == MaxRows + 1

InitDist == InitPartition(DistRows)

DistReinit ==
  \E owned \in OwnedSets(DistRows), nn \in ColCounts :
    \E pattern \in Patterns(DistRows, nn) :
      /\ Do("reinit",
            reinit_rows(Self, owned, nn, DistRows, nn, pattern, TRUE,
                        IndexSet(0, {}), FALSE))
      /\ args' = ReinitArgs(owned, pattern, TRUE, FALSE)

DistSet ==
  /\ ~matrix.null
  /\ \E row \in 0 .. m(Self), elide \in BOOLEAN :
       \E ents \in Entries(0 .. n(Self) - 1, InputVals) :
         LET res == set(Self, row, ents, elide)
         IN /\ StorableDist(res)
            /\ Do("set", res)
            /\ args' = DistArgs(row, ents, elide)

DistAdd ==
  /\ ~matrix.null
  /\ \E row \in 0 .. m(Self) :
       \E ents \in Entries(0 .. n(Self) - 1, InputVals) :
         LET res == add(Self, row, ents, FALSE)
         IN /\ StorableDist(res)
            /\ Do("add", res)
            /\ args' = DistArgs(row, ents, FALSE)

DistCompress ==
  /\ ~matrix.null
  /\ Do("compress", compress(Self))
  /\ args' = NoArgs

DistElement ==
  /\ ~matrix.null
  /\ \E i \in 0 .. m(Self), j \in 0 .. n(Self) - 1 :
       /\ Do("element", element(Self, i, j, FALSE))
       /\ args' = NoArgs

NextDist ==
  \/ DistReinit
  \/ DistSet
  \/ DistAdd
  \/ DistCompress
  \/ DistElement

SpecDist == InitDist /\ [][NextDist]_vars

\* Building the graph of a matrix of GraphRows rows from a sparsity
\* description, on a process that owns some of the rows.
GraphRows == MaxRows + 2

InitGraph == InitPartition(GraphRows)

\* The row index sets of a DynamicSparsityPattern of mm rows: the
\* default-constructed one, and those over the mm rows, which may leave out
\* rows of the process and hold rows of other processes.
RowIndexSets(mm) ==
  {IndexSet(0, {})} \cup {IndexSet(mm, S) : S \in SUBSET (0 .. mm - 1)}

\* A DynamicSparsityPattern is handed in without exchange_data; it holds
\* entries only in the rows of its row index set, in any row if that set is
\* the default-constructed one.
GraphReinit ==
  \E owned \in OwnedSets(GraphRows), nn \in ColCounts, dynamic \in BOOLEAN,
     exchange_data \in BOOLEAN :
    \E pattern \in SUBSET Positions(GraphRows, nn),
       row_index_set \in RowIndexSets(GraphRows) :
      /\ ~dynamic => row_index_set = IndexSet(0, {})
      /\ dynamic => /\ ~exchange_data
                    /\ \A p \in pattern :
                         p[1] \in relevant_rows(row_index_set, GraphRows)
      /\ Do("reinit",
            reinit_rows(Self, owned, nn, GraphRows, nn, pattern, dynamic,
                        row_index_set, exchange_data))
      /\ args' = IF exchange_data
                   THEN ReinitArgs(owned, pattern, dynamic, TRUE)
                   ELSE GraphArgs(owned, pattern, dynamic, row_index_set,
                                  GraphRows)

NextGraph ==
  \/ GraphReinit
  \/ DistCompress
  \/ DistElement

SpecGraph == InitGraph /\ [][NextGraph]_vars

Next ==
  \/ Compress
  \/ ResumeFill
  \/ Clear
  \/ Assign
  \/ Mul
  \/ Div
  \/ Set
  \/ Add
  \/ ReinitSerial
  \/ Reinit
  \/ ReinitGraph
  \/ CopyFrom
  \/ Vmult
  \/ TVmult
  \/ VmultAdd
  \/ TVmultAdd
  \/ MatrixNormSquare
  \/ MatrixScalarProduct
  \/ FrobeniusNorm
  \/ Element

Spec == Init /\ [][Next]_vars

\* ------------------------------------------------------------ properties
ObjectUnchanged ==
  /\ column_space_map' = column_space_map
  /\ matrix' = matrix
  /\ compressed' = compressed

MultiplyOps == {"vmult", "Tvmult", "vmult_add", "Tvmult_add"}

NormOps == {"frobenius_norm", "matrix_norm_square", "matrix_scalar_product"}

\* C1: directly after any call of compress() the underlying storage is
\* fill-complete, so that the check of vmult, frobenius_norm and element
\* passes.
C1_CompressLeavesFinalized == lastOp = "compress" => matrix.isFillComplete

\* C2: a compress() directly after a compress() changes nothing of the object
\* and issues no underlying fillComplete; a resume_fill() directly after a
\* resume_fill() changes nothing either.
C2_FillStateIdempotent ==
  [][/\ (lastOp = "compress" /\ lastOp' = "compress")
          => (ObjectUnchanged /\ ~finalizeIssued')
     /\ (lastOp = "resume_fill" /\ lastOp' = "resume_fill")
          => (ObjectUnchanged /\ ~finalizeIssued')]_vars

C2_Witness ==
  /\ lastOp = "compress"
  /\ repeated
  /\ matrix.isFillComplete
  /\ DOMAIN matrix.values # {}

QueryOps == MultiplyOps \cup NormOps

ScalingOps == {"operator*=", "operator/="}

Nonlocal(i, j) == i \notin matrix.rowMap \/ j \notin ColMap(matrix)

\* C3 as stated: on a matrix whose storage is not fill-complete each of
\* vmult, Tvmult, vmult_add, Tvmult_add, frobenius_norm, matrix_norm_square
\* and matrix_scalar_product fails with ExcMatrixNotCompressed and leaves the
\* object as it was.
C3_FailsNotCompressed ==
  [][(~matrix.isFillComplete /\ lastOp' \in QueryOps)
       => (err' = "ExcMatrixNotCompressed" /\ ObjectUnchanged)]_vars

\* C3 amended: on such a matrix each of the seven fails with a fatal check and
\* leaves the object as it was; the check is ExcMatrixNotCompressed whenever
\* src and dst are distinct objects (the four products) and the vectors have
\* m() entries (the two quadratic forms), and always for frobenius_norm;
\* otherwise it is the earlier ExcSourceEqualsDestination or
\* ExcDimensionMismatch.
C3_FailsFatally ==
  [][~matrix.isFillComplete =>
       /\ lastOp' \in QueryOps =>
            /\ ObjectUnchanged
            /\ err' \in {"ExcMatrixNotCompressed", "ExcSourceEqualsDestination",
                         "ExcDimensionMismatch"}
            /\ err' = "ExcSourceEqualsDestination" => lastOp' \in MultiplyOps
            /\ err' = "ExcDimensionMismatch"
                 => lastOp' \in {"matrix_norm_square", "matrix_scalar_product"}
       /\ lastOp' \in MultiplyOps => \A srcN \in VecSizes, dstN \in VecSizes :
            /\ Do("vmult", vmult(Self, FALSE, srcN, dstN))
                 => err' = "ExcMatrixNotCompressed"
            /\ Do("Tvmult", Tvmult(Self, FALSE, srcN, dstN))
                 => err' = "ExcMatrixNotCompressed"
            /\ Do("vmult_add", vmult_add(Self, FALSE, srcN, dstN))
                 => err' = "ExcMatrixNotCompressed"
            /\ Do("Tvmult_add", Tvmult_add(Self, FALSE, srcN, dstN))
                 => err' = "ExcMatrixNotCompressed"
       /\ Do("matrix_norm_square", matrix_norm_square(Self, m(Self)))
            => err' = "ExcMatrixNotCompressed"
       /\ Do("matrix_scalar_product",
             matrix_scalar_product(Self, m(Self), m(Self)))
            => err' = "ExcMatrixNotCompressed"]_vars

C3_Witness ==
  /\ lastOp = "vmult"
  /\ err = "ExcMatrixNotCompressed"
  /\ ~matrix.isFillComplete
  /\ ~compressed
  /\ \E p \in DOMAIN matrix.values : matrix.values[p] # 0

\* C4 as stated: a set that passes its checks leaves the matrix Editable, and
\* every multiply, norm or element lookup that follows it is fatal.
C4_SetThenEveryQueryFatal ==
  [][/\ (lastOp' = "set" /\ err' = "ok")
          => (~compressed' /\ ~matrix'.isFillComplete)
     /\ (lastOp = "set" /\ err = "ok" /\ lastOp' \in QueryOps \cup {"element"})
          => err' # "ok"]_vars

\* C4 amended: a set that completes (row check passed and, with
\* elide_zero_values, every value finite) leaves the matrix Editable,
\* whatever its fill state and graph were; a set stopped by the finite-value
\* check leaves the object as it was.  While the storage is not fill-complete
\* every multiply and norm is fatal, and so is every element lookup of a
\* local index pair; element(i, j, no_error = true) of a non-local pair
\* returns zero.
C4_SetLeavesEditable ==
  [][/\ (lastOp' = "set" /\ err' = "ok")
          => (~compressed' /\ ~matrix'.isFillComplete)
     /\ (lastOp' = "set" /\ err' # "ok")
          => (ObjectUnchanged
              /\ err' \in {"ExcIndexRange(row)", "ExcNumberNotFinite"})
     /\ (~matrix.isFillComplete /\ lastOp' \in QueryOps) => err' # "ok"
     /\ (~matrix.isFillComplete /\ ~matrix.null /\ lastOp' = "element") =>
          \A i \in 0 .. m(Self), j \in 0 .. n(Self), no_error \in BOOLEAN :
            Do("element", element(Self, i, j, no_error)) =>
              IF Nonlocal(i, j)
                THEN IF no_error THEN err' = "ok" /\ ret' = 0
                     ELSE err' = "ExcAccessToNonLocalElement"
                ELSE err' = "ExcMatrixNotCompressed"]_vars

C4_Witness ==
  /\ lastOp = "set"
  /\ err = "ok"
  /\ pre.finalized
  /\ matrix.isStaticGraph
  /\ ~compressed
  /\ \E p \in DOMAIN matrix.values : matrix.values[p] # 0

StructureOps ==
  {"set", "add", "operator=", "operator*=", "operator/=", "resume_fill",
   "compress"}

\* C5: on a matrix whose graph is static the set of stored positions is the
\* same after each of set, add, operator=, operator*=, operator/=, resume_fill
\* and compress (set replaces, it never inserts); on a matrix that owns its
\* graph set inserts: the positions it was given are stored afterwards and
\* none is lost.
C5_FixedGraphKeepsPositions ==
  [][/\ (matrix.isStaticGraph /\ lastOp' \in StructureOps)
          => (matrix'.isStaticGraph
              /\ DOMAIN matrix'.values = DOMAIN matrix.values)
     /\ (~matrix.isStaticGraph /\ ~matrix.null /\ lastOp' = "set") =>
          \A row \in 0 .. m(Self) - 1, elide \in BOOLEAN :
            \A ents \in Entries(0 .. n(Self) - 1, InputVals) :
              Do("set", set(Self, row, ents, elide)) =>
                /\ DOMAIN matrix.values \subseteq DOMAIN matrix'.values
                /\ \A k \in 1 .. Len(ents) :
                     (~elide \/ ents[k][2] # 0)
                       => <<row, ents[k][1]>> \in DOMAIN matrix'.values]_vars

C5_Witness ==
  /\ lastOp = "set"
  /\ err = "ok"
  /\ matrix.isStaticGraph
  /\ matrix.rows > 0
  /\ matrix.cols > 0
  /\ DOMAIN matrix.values = {}

\* C6 as stated: operator*= and operator/= on a matrix that is not Finalized
\* fail and leave the fill state as it was.
C6_ScalingRequiresFinalized ==
  [][(~matrix.isFillComplete /\ lastOp' \in ScalingOps)
       => /\ err' # "ok"
          /\ compressed' = compressed
          /\ matrix'.isFillComplete = matrix.isFillComplete]_vars

\* C6 amended: operator*= and operator/= make no check of the fill state.
\* They resume the fill if the flag is set, scale the values, call the
\* underlying fillComplete and set the flag, so every scaling call that
\* completes leaves the matrix Finalized, an Editable one included; the only
\* fatal check is the division by zero, which leaves the object as it was.
C6_ScalingFinalizes ==
  [][lastOp' \in ScalingOps =>
       IF err' = "ok"
         THEN compressed' /\ matrix'.isFillComplete /\ finalizeIssued'
         ELSE /\ lastOp' = "operator/="
              /\ err' = "ExcDivideByZero"
              /\ ObjectUnchanged]_vars

C6_Witness ==
  /\ lastOp = "operator*="
  /\ err = "ok"
  /\ ~pre.finalized
  /\ compressed
  /\ matrix.isFillComplete
  /\ \E p \in DOMAIN matrix.values : matrix.values[p] # 0

\* C7 as stated: the default-constructed matrix is the empty 0x0 matrix of a
\* single process and is Finalized (flag set, storage fill-complete).
C7_DefaultIsFinalized ==
  lastOp = "SparseMatrix()" =>
    /\ matrix.rows = 0 /\ matrix.cols = 0 /\ column_space_map = 0
    /\ DOMAIN matrix.values = {}
    /\ compressed
    /\ matrix.isFillComplete

\* C7 amended: the default-constructed matrix is the empty 0x0 matrix of a
\* single process and is Editable: the flag is clear and the storage is
\* fill-active, so the operations that require the Finalized state fail until
\* compress() is called; the first compress() finalizes it.
C7_DefaultIsEditable ==
  /\ [](lastOp = "SparseMatrix()" =>
          /\ matrix.rows = 0 /\ matrix.cols = 0 /\ column_space_map = 0
          /\ DOMAIN matrix.values = {}
          /\ ~compressed
          /\ ~matrix.isFillComplete)
  /\ [][lastOp = "SparseMatrix()" =>
          /\ lastOp' \in QueryOps => err' # "ok"
          /\ lastOp' = "compress"
               => (compressed' /\ matrix'.isFillComplete /\ finalizeIssued')]_vars

C7_Witness ==
  /\ lastOp = "SparseMatrix()"
  /\ matrix.rows = 0
  /\ ~compressed
  /\ ~matrix.isFillComplete

\* C8: clear() leaves the empty 0x0 matrix in the Finalized state: no rows, no
\* columns, no entries, the flag set and the storage fill-complete, so that
\* frobenius_norm() and vmult() pass their check without a compress().
C8_ClearIsFinalized ==
  lastOp = "clear" =>
    /\ matrix.rows = 0 /\ matrix.cols = 0 /\ column_space_map = 0
    /\ DOMAIN matrix.values = {}
    /\ compressed
    /\ matrix.isFillComplete

\* C9 as stated: the constructor from a graph-bearing sparsity object does not
\* compress; the matrix it returns is not Finalized.
C9_ConstructorLeavesOpen ==
  lastOp = "SparseMatrix(pattern)" => (~compressed /\ ~matrix.isFillComplete)

\* C9 amended: the constructor from a graph-bearing sparsity object performs
\* the compress itself (it calls compress(VectorOperation::add)): the matrix
\* it returns is Finalized with every value zero, and a compress() by the
\* caller changes nothing.
C9_ConstructorCompresses ==
  /\ [](lastOp = "SparseMatrix(pattern)" =>
          /\ compressed /\ matrix.isFillComplete /\ finalizeIssued
          /\ matrix.isStaticGraph
          /\ \A p \in DOMAIN matrix.values : matrix.values[p] = 0)
  /\ [][(lastOp = "SparseMatrix(pattern)" /\ lastOp' = "compress")
          => (ObjectUnchanged /\ ~finalizeIssued')]_vars

C9_Witness ==
  /\ lastOp = "SparseMatrix(pattern)"
  /\ DOMAIN matrix.values # {}
  /\ matrix.isFillComplete

\* C10: after a reinit from a sparsity description that returns (serial form,
\* distributed form with or without exchange_data, graph-bearing sparsity
\* object) the matrix is Finalized and every stored value is zero, whatever
\* its fill state, structure and values were before.
C10_ReinitFinalizedAndZero ==
  (lastOp = "reinit" /\ err = "ok") =>
    /\ compressed
    /\ matrix.isFillComplete
    /\ matrix.isStaticGraph
    /\ \A p \in DOMAIN matrix.values : matrix.values[p] = 0

C10_Witness ==
  /\ lastOp = "reinit"
  /\ err = "ok"
  /\ pre.nonzero
  /\ ~pre.finalized
  /\ DOMAIN matrix.values # {}

\* The columns stored for row r, and the columns a sparsity description
\* declares for it.
StoredColumns(r) ==
  {c \in 0 .. matrix.cols - 1 : <<r, c>> \in DOMAIN matrix.values}

DeclaredColumns(pattern, r) == {p[2] : p \in {q \in pattern : q[1] = r}}

\* C11: a reinit from a sparsity description without exchange_data returns,
\* whatever the description and the row partitioning are, and afterwards the
\* columns stored for each row the process owns are the columns the
\* description declares for that row (none for an empty row).
C11_GraphRoundTrip ==
  (lastOp = "reinit" /\ ~args.flag) =>
    /\ err = "ok"
    /\ matrix.rowMap = args.owned
    /\ \A r \in args.owned :
         StoredColumns(r) = DeclaredColumns(args.pattern, r)

\* The object after the step.
SelfAfter ==
  [column_space_map |-> column_space_map', matrix |-> matrix',
   compressed |-> compressed']

\* C12: a set with elide_zero_values ends as the set without it ends that is
\* given only the entries of nonzero value, in the same order, on the same
\* matrix: the same outcome, the same stored values, structure and fill
\* state.
C12_ElisionEquivalence ==
  [][(lastOp' = "set" /\ args'.flag) =>
       LET filtered == set(Self, args'.row, NonZero(args'.ents), FALSE)
       IN /\ err' = filtered.err
          /\ SelfAfter = filtered.self]_vars

\* One entry of finite nonzero value.
SingleNonzero(ents) ==
  /\ Len(ents) = 1
  /\ ents[1][2] # 0
  /\ IsFinite(ents[1][2])

\* C13: on a Finalized matrix whose graph holds (row, c), add(row, [c], [v1])
\* and then add(row, [c], [v2]) with finite nonzero v1 and v2 both complete,
\* with and without elide_zero_values, and the value stored at (row, c) is
\* then the value stored before the first call plus v1 + v2.
C13_AddAccumulates ==
  [][/\ (/\ lastOp' = "add"
         /\ matrix.isFillComplete /\ compressed
         /\ SingleNonzero(args'.ents)
         /\ <<args'.row, args'.ents[1][1]>> \in DOMAIN matrix.values)
          => err' = "ok"
     /\ (/\ lastOp = "add" /\ err = "ok" /\ pre.finalized
         /\ SingleNonzero(args.ents)
         /\ <<args.row, args.ents[1][1]>> \in DOMAIN args.before
         /\ lastOp' = "add"
         /\ SingleNonzero(args'.ents)
         /\ args'.row = args.row
         /\ args'.ents[1][1] = args.ents[1][1])
          => /\ err' = "ok"
             /\ matrix'.values[<<args.row, args.ents[1][1]>>]
                  = Plus(args.before[<<args.row, args.ents[1][1]>>],
                         args.ents[1][2] + args'.ents[1][2])]_vars

\* Every value of the row is finite and every column is one of the matrix.
FiniteInRange(ents) ==
  \A k \in 1 .. Len(ents) : IsFinite(ents[k][2]) /\ ents[k][1] < matrix.cols

\* C14: an add with elide_zero_values, a row in range, finite values and
\* columns in [0, n) completes without tripping an assertion, also when no
\* value is zero, and what it hands to sumIntoGlobalValues are the entries of
\* nonzero value in the order given (n_cols minus the number of zeros of
\* them).
C14_AddElidesInOrder ==
  [][(/\ lastOp' = "add"
      /\ args'.flag
      /\ args'.row < matrix.rows
      /\ FiniteInRange(args'.ents))
       => /\ err' = "ok"
          /\ matrix' = sumIntoGlobalValues(ResumeIfNeeded(Self).matrix,
                                           args'.row, NonZero(args'.ents))]_vars

\* C15: an add with elide_zero_values whose values are all zero changes
\* nothing: the stored values, the structure and the fill state are those of
\* before the call (a Finalized matrix stays Finalized).
C15_AllZeroAddIsNoOp ==
  [][(/\ lastOp' = "add"
      /\ args'.flag
      /\ args'.row < matrix.rows
      /\ Len(args'.ents) > 0
      /\ \A k \in 1 .. Len(args'.ents) : args'.ents[k][2] = 0)
       => (err' = "ok" /\ ObjectUnchanged)]_vars

\* Entry k of the row reaches the assertions of add's loop: it is not a zero
\* that elide_zero_values drops.
Kept(ents, elide, k) == ~elide \/ ents[k][2] # 0

\* Entry k passes the loop's assertions on value and column.
Passes(ents, k) == IsFinite(ents[k][2]) /\ ents[k][1] < matrix.cols

\* The number of zero values that elide_zero_values drops.
Dropped(ents, elide) ==
  IF elide THEN Cardinality({k \in 1 .. Len(ents) : ents[k][2] = 0}) ELSE 0

\* C16 as stated: an add with a row in range fails whenever one of its
\* columns is outside [0, n), with and without elide_zero_values and whatever
\* the value given with that column is.
C16_AddRejectsEveryColumn ==
  [][(/\ lastOp' = "add"
      /\ args'.row < matrix.rows
      /\ \E k \in 1 .. Len(args'.ents) : ~(args'.ents[k][1] < matrix.cols))
       => err' # "ok"]_vars

\* C16 amended: an add with a row in range fails with a fatal check whenever
\* a column outside [0, n) comes with a value that is not dropped (any value
\* without elide_zero_values, a nonzero value with it).  The check is the
\* bounds check on that column if the value is finite and no entry before it
\* has tripped an assertion; otherwise it is the finite-value check, the
\* bounds check of an earlier column or, with elide_zero_values, the
\* assertion on the write index.  A column outside [0, n) that comes with a
\* zero which elide_zero_values drops is not checked: if all such columns do,
\* the bounds check on the columns does not fire.
C16_AddRejectsKeptColumn ==
  [][(lastOp' = "add" /\ args'.row < matrix.rows) =>
       LET ents == args'.ents
           elide == args'.flag
           bad == {k \in 1 .. Len(ents) :
                     Kept(ents, elide, k) /\ ~(ents[k][1] < matrix.cols)}
       IN /\ bad # {} =>
               err' \in {"ExcIndexRange(col)", "ExcNumberNotFinite",
                         "ExcIndexRange(n_columns)"}
          /\ \A k \in bad :
               (/\ IsFinite(ents[k][2])
                /\ \A j \in 1 .. k - 1 : Kept(ents, elide, j) => Passes(ents, j)
                /\ elide =>
                     Cardinality({j \in 1 .. k - 1 : Kept(ents, elide, j)})
                       <= Dropped(ents, elide))
                 => err' = "ExcIndexRange(col)"
          /\ (/\ bad = {}
              /\ \A k \in 1 .. Len(ents) :
                   Kept(ents, elide, k) => IsFinite(ents[k][2]))
               => err' \in {"ok", "ExcIndexRange(n_columns)"}]_vars

C16_Witness ==
  /\ lastOp = "add"
  /\ err = "ExcIndexRange(col)"
  /\ Len(args.ents) = 2
  /\ args.ents[1][1] < matrix.cols
  /\ args.ents[1][2] # 0
  /\ ~(args.ents[2][1] < matrix.cols)

\* C17: an add on a Finalized matrix that fails on a column outside [0, n)
\* leaves the object as it was (no stored value has changed, whatever entries
\* came before the failing one), and an element(i, j) lookup of a stored
\* position made directly after it returns the value stored before the add.
C17_FailedAddLeavesMatrix ==
  [][/\ (/\ lastOp' = "add"
         /\ err' = "ExcIndexRange(col)"
         /\ matrix.isFillComplete /\ compressed)
          => ObjectUnchanged
     /\ (/\ lastOp = "add"
         /\ err = "ExcIndexRange(col)"
         /\ pre.finalized
         /\ lastOp' = "element"
         /\ <<args'.row, args'.col>> \in DOMAIN args.before)
          => /\ err' = "ok"
             /\ ret' = args.before[<<args'.row, args'.col>>]]_vars

\* C18: a set or an add that is given a value that is not finite fails with
\* a fatal assertion and stores nothing, with and without
\* elide_zero_values.
C18_NonFiniteRejected ==
  [][(/\ lastOp' \in {"set", "add"}
      /\ \E k \in 1 .. Len(args'.ents) : ~IsFinite(args'.ents[k][2]))
       => /\ err' # "ok"
          /\ matrix'.values = matrix.values]_vars

\* The row given to set or add is one of the matrix that another process
\* owns.
RowOfAnother(row) == row < matrix.rows /\ row \notin matrix.rowMap

C20_BlockSetAllOrNothing ==
  [][(lastOp' = "set(block)" /\ err' # "ok") => ObjectUnchanged]_vars

\* The stored value of the pair the last element call asked for, if the row
\* and the column both translate and the pair is stored.
Stored(i, j) ==
  /\ i \in matrix.rowMap
  /\ j \in ColMap(matrix)
  /\ <<i, j>> \in DOMAIN matrix.values

\* C21: on a Finalized matrix element(i, j, tolerant) returns the stored
\* value when row and column translate to local slots and the pair is
\* stored; otherwise it returns exactly zero when tolerant and is fatal when
\* not; the matrix is the same afterwards in every case.  Finalized is
\* taken as either the flag compressed or fill-complete storage.
C21_ElementLookup ==
  [][((compressed \/ matrix.isFillComplete) /\ lastOp' = "element") =>
       /\ ObjectUnchanged
       /\ IF Stored(args'.row, args'.col)
            THEN err' = "ok" /\ ret' = matrix.values[<<args'.row, args'.col>>]
            ELSE IF args'.flag THEN err' = "ok" /\ ret' = 0
                 ELSE err' # "ok"]_vars

\* A stored nonzero value was returned.
C21_Witness ==
  /\ lastOp = "element"
  /\ compressed
  /\ matrix.isFillComplete
  /\ Stored(args.row, args.col)
  /\ err = "ok"
  /\ ret # 0

\* C22 as stated: on a matrix that is not Finalized every element lookup is
\* fatal, whatever the index pair and the setting of tolerant.
C22_ElementRequiresFinalized ==
  [][(~matrix.isFillComplete /\ lastOp' = "element") => err' # "ok"]_vars

\* C22 amended: on a matrix that is not Finalized an element lookup is fatal
\* with ExcMatrixNotCompressed when row and column translate to local slots,
\* and fatal with ExcAccessToNonLocalElement when one does not and tolerant is
\* false; when one does not translate and tolerant is true it returns zero.
\* The matrix is never changed.
C22_ElementChecksLocalityFirst ==
  [][(~matrix.isFillComplete /\ lastOp' = "element") =>
       /\ ObjectUnchanged
       /\ IF Nonlocal(args'.row, args'.col)
            THEN IF args'.flag THEN err' = "ok" /\ ret' = 0
                 ELSE err' = "ExcAccessToNonLocalElement"
            ELSE err' = "ExcMatrixNotCompressed"]_vars

\* A tolerant lookup of a row that is not of this process returned zero from
\* a matrix with a stored nonzero value and fill-active storage.
C22_Witness ==
  /\ lastOp = "element"
  /\ ~matrix.isFillComplete
  /\ ~compressed
  /\ args.flag
  /\ args.row \notin matrix.rowMap
  /\ \E p \in DOMAIN matrix.values : matrix.values[p] # 0
  /\ err = "ok"
  /\ ret = 0

\* C23: vmult and vmult_add are fatal unless src and dst are distinct
\* objects, src is laid out like the domain map and dst like the range map
\* (the rows); Tvmult and Tvmult_add check dst against the domain map and src
\* against the range map; a multiply that fails leaves dst and the matrix as
\* they were, and one that succeeds leaves the matrix as it was.
C23_MultiplyChecks ==
  [][/\ (lastOp' \in {"vmult", "vmult_add"}
          /\ (args'.flag \/ Len(args'.src) # matrix.domainMap
               \/ Len(args'.dst) # matrix.rows))
          => err' # "ok"
     /\ (lastOp' \in {"Tvmult", "Tvmult_add"}
          /\ (args'.flag \/ Len(args'.dst) # matrix.domainMap
               \/ Len(args'.src) # matrix.rows))
          => err' # "ok"
     /\ (lastOp' \in MultiplyOps /\ err' # "ok")
          => (args'.result = args'.dst /\ ObjectUnchanged)
     /\ (lastOp' \in MultiplyOps) => ObjectUnchanged]_vars

\* A multiply of a matrix with a nonzero value failed on the layout of a
\* vector alone: src and dst distinct, storage fill-complete.
C23_Witness ==
  /\ lastOp \in MultiplyOps
  /\ matrix.isFillComplete
  /\ ~args.flag
  /\ err \in {"ExcColMapMissmatch", "ExcDomainMapMissmatch"}
  /\ \E p \in DOMAIN matrix.values : matrix.values[p] = MaxVal
  /\ \E i \in 1 .. Len(args.src) : args.src[i] # 0
  /\ args.result = args.dst

\* The object a call of a run with two objects was made on, afterwards, and
\* the second one afterwards.
TargetAfter(on) == IF on = "other" THEN other' ELSE SelfAfter

ArgumentAfter(on) == IF on = "other" THEN SelfAfter ELSE other'

\* C24 as stated: A.add(factor, B) is fatal unless A and B have equal
\* dimensions, the same row distribution and fill-complete storage; when it
\* succeeds every stored entry of A is its previous value plus factor times
\* B's entry at that position, A's stored positions and fill state are as
\* before, and B is as before.
C24_AddMatrixAccumulates ==
  [][lastOp' = "add(factor,source)" =>
       LET A == Target(args'.on)
           B == Argument(args'.on)
           A1 == TargetAfter(args'.on)
       IN /\ (\/ m(A) # m(B) \/ n(A) # n(B)
               \/ A.matrix.rowMap # B.matrix.rowMap
               \/ ~A.matrix.isFillComplete \/ ~B.matrix.isFillComplete)
               => err' # "ok"
          /\ ArgumentAfter(args'.on) = B
          /\ DOMAIN A1.matrix.values = DOMAIN A.matrix.values
          /\ A1.matrix.isFillComplete = A.matrix.isFillComplete
          /\ A1.compressed = A.compressed
          /\ err' = "ok" =>
               \A p \in DOMAIN A.matrix.values :
                 A1.matrix.values[p] =
                   Plus(A.matrix.values[p],
                        Times(args'.factor,
                              Entry(B.matrix, p[1], p[2], FALSE)))]_vars

\* The calls that C25 lets follow a copy.
MutatingOps ==
  {"set", "add", "operator*=", "operator=", "resume_fill", "compress", "clear"}

\* Structure, values and fill state of two objects are the same.
SameContent(X, Y) ==
  /\ X.matrix.rows = Y.matrix.rows
  /\ X.matrix.cols = Y.matrix.cols
  /\ X.matrix.rowMap = Y.matrix.rowMap
  /\ X.matrix.values = Y.matrix.values
  /\ X.matrix.isFillComplete = Y.matrix.isFillComplete
  /\ X.compressed = Y.compressed

\* C25 as stated: after B.copy_from(A) with B distinct from A, B has A's
\* structure, values and fill state and A is as before; A.copy_from(A)
\* changes nothing; each of set, add, scaling, operator=(0), resume_fill,
\* compress and clear on one object leaves the other one as it was.
C25_CopyIsDeep ==
  [][/\ (lastOp' = "copy_from" /\ ~args'.flag)
          => (/\ err' = "ok"
              /\ SameContent(TargetAfter(args'.on), Argument(args'.on))
              /\ ArgumentAfter(args'.on) = Argument(args'.on))
     /\ (lastOp' = "copy_from" /\ args'.flag)
          => (/\ TargetAfter(args'.on) = Target(args'.on)
              /\ ArgumentAfter(args'.on) = Argument(args'.on))
     /\ (lastOp' \in MutatingOps)
          => ArgumentAfter(args'.on) = Argument(args'.on)]_vars

\* C26: a matrix built on the graph of a sparsity pattern keeps the graph as
\* it is under set, add, operator=(0), scaling, resume_fill and compress: the
\* stored positions of the matrix the call was made on are the same
\* afterwards, its graph is still the fixed one, and the second matrix
\* (built on the same graph) has the positions, values and fill state it had.
C26_SharedGraphUntouched ==
  [][(lastOp' \in StructureOps /\ Target(args'.on).matrix.isStaticGraph) =>
       /\ DOMAIN TargetAfter(args'.on).matrix.values =
            DOMAIN Target(args'.on).matrix.values
       /\ TargetAfter(args'.on).matrix.isStaticGraph
       /\ ArgumentAfter(args'.on) = Argument(args'.on)]_vars

\* Both matrices are on the graph of one pattern; a set on this one has
\* stored a value that the other one does not have.
C26_Witness ==
  /\ lastOp = "set"
  /\ err = "ok"
  /\ args.on = "this"
  /\ matrix.isStaticGraph
  /\ ~other.matrix.null
  /\ other.matrix.isStaticGraph
  /\ DOMAIN other.matrix.values = DOMAIN matrix.values
  /\ \E p \in DOMAIN matrix.values :
       matrix.values[p] = MaxVal /\ other.matrix.values[p] = 0
  /\ other.matrix.isFillComplete
  /\ ~matrix.isFillComplete

\* The columns of a row of the pattern, and the pairs of a sequence.
ColumnsOf(row) == {row[k] : k \in 1 .. Len(row)}

PairsOf(row) == {row[k] : k \in 1 .. Len(row)}

\* C27 as stated: in reinit from a dense reference matrix with copy_values,
\* for every row (reference entries and pattern entries ascending by column,
\* the diagonal first in a square pattern) whose loop ends without a failed
\* assertion, what is written into the row is exactly the reference entries
\* whose column is in the pattern's row too and whose value is greater than
\* drop_tolerance; and no value is stored in the matrix at a column that the
\* pattern's row does not have.
C27_LockstepCopy ==
  (lastOp = "reinit(matrix)" /\ args.flag) =>
    /\ \A r \in 1 .. Len(args.written) :
         args.written[r].err = "ok" =>
           PairsOf(args.written[r].out) =
             {e \in PairsOf(args.reference[r]) :
                e[1] \in ColumnsOf(args.sparsity[r]) /\ e[2] > args.factor}
    /\ \A p \in DOMAIN matrix.values :
         matrix.values[p] # 0 => p[2] \in ColumnsOf(args.sparsity[p[1] + 1])

\* A reinit from a DynamicSparsityPattern without exchange_data.
DynamicReinit == lastOp = "reinit" /\ ~args.flag /\ args.dynamic

\* The rows of the process in ascending order: the k-th is local row k.
LocalRows == SortedSeq(args.owned)

\* C29: in a reinit without exchange_data from a sparsity description that
\* is not a DynamicSparsityPattern, whatever the row partitioning is,
\* n_entries_per_row has one entry for each row of the process, the k-th
\* entry is the length the description has for the k-th row of the process,
\* and insertGlobalIndices is called only for rows of the process.
C29_StaticCapacityPerOwnedRow ==
  (lastOp = "reinit" /\ ~args.flag /\ ~args.dynamic) =>
    /\ Len(args.n_entries_per_row) = Len(LocalRows)
    /\ \A k \in 1 .. Len(LocalRows) :
         args.n_entries_per_row[k] = row_length(args.pattern, LocalRows[k])
    /\ args.inserted_rows \subseteq args.owned

\* C30: in a reinit without exchange_data from a DynamicSparsityPattern,
\* whatever its row index set is, the k-th entry of n_entries_per_row is the
\* length the description has for the k-th row of the process (zero for a
\* row it does not describe), and insertGlobalIndices is called only for rows
\* of the process.
C30_DynamicCapacityPerOwnedRow ==
  DynamicReinit =>
    /\ Len(args.n_entries_per_row) = Len(LocalRows)
    /\ \A k \in 1 .. Len(LocalRows) :
         args.n_entries_per_row[k] = row_length(args.pattern, LocalRows[k])
    /\ args.inserted_rows \subseteq args.owned

\* The columns stored for the rows of the process are those declared.
OwnedRowsAsDeclared ==
  /\ err = "ok"
  /\ matrix.rowMap = args.owned
  /\ \A r \in args.owned :
       StoredColumns(r) = DeclaredColumns(args.pattern, r)

\* C28 as stated: in a reinit from a DynamicSparsityPattern without
\* exchange_data whose row index set holds no index, every row from 0 up to
\* the number of rows is walked, and every row of the process gets the
\* columns declared for it.
C28_EmptyIndexSetIsDense ==
  (DynamicReinit /\ args.row_index_set.elements = {}) =>
    /\ args.relevant_rows = 0 .. GraphRows - 1
    /\ OwnedRowsAsDeclared

\* C28, amended: all rows are walked when the row index set has size() 0, as
\* a default-constructed one has; a row index set over the rows of the
\* matrix that holds no index is walked as it is, so no row is walked.  Such
\* a description has no entries, and in both cases every row of the process
\* gets the columns declared for it.
C28_SizeZeroIndexSetIsDense ==
  (DynamicReinit /\ args.row_index_set.elements = {}) =>
    /\ args.relevant_rows =
         IF args.row_index_set.size = 0 THEN 0 .. GraphRows - 1 ELSE {}
    /\ OwnedRowsAsDeclared

C28_Witness ==
  /\ DynamicReinit
  /\ args.row_index_set = IndexSet(0, {})
  /\ args.relevant_rows = 0 .. GraphRows - 1
  /\ err = "ok"
  /\ \E r \in args.owned :
       /\ DeclaredColumns(args.pattern, r) # {}
       /\ StoredColumns(r) = DeclaredColumns(args.pattern, r)
  /\ \E r \in 0 .. GraphRows - 1 : r \notin args.owned

\* The call of reinit from a dense reference matrix returns, and the matrix
\* it was called on was null, had another number of rows or of stored
\* entries than the selected pattern, or copy_values was set.
ReinitCase ==
  /\ lastOp' = "reinit(matrix)"
  /\ err' = "ok"
  /\ \/ matrix.null
     \/ matrix.rows # Len(args.reference)
     \/ Cardinality(DOMAIN matrix.values)
          # Cardinality(PositionsOf(args.sparsity))
     \/ args.flag

\* The matrix after the step is built on the selected pattern: the pattern
\* given as use_this_sparsity, or that of the reference matrix.
OnSelectedPattern ==
  /\ ~matrix'.null
  /\ matrix'.rows = Len(args.reference)
  /\ DOMAIN matrix'.values = PositionsOf(args.sparsity)

\* C31: when reinit from a dense reference matrix returns and the matrix was
\* null, had another number of rows or of stored entries than the selected
\* pattern, or copy_values was set, the structure of the matrix is the
\* selected pattern (use_this_sparsity if it is given, else the pattern of
\* the reference matrix), and with copy_values the matrix is finalized.
C31_StructureIsSelectedPattern ==
  [][ReinitCase =>
       /\ OnSelectedPattern
       /\ args.flag => (matrix'.isFillComplete /\ compressed')]_vars

\* C33: in every state the public operations reach on a matrix that was not
\* moved from, the flag compressed is true exactly when the underlying
\* matrix is fill-complete.
C33_FlagIsFillState ==
  ~matrix.null => (compressed <=> matrix.isFillComplete)

\* C32: in a reinit from a sparsity description on several processes, a
\* sparsity description with another number of rows or columns than the
\* partitionings stops every process that makes the call, so that no process
\* is in the collective graph->fillComplete while another has stopped on the
\* mismatch.
C32_MismatchStopsEveryRank ==
  /\ args.flag =>
       \A p \in DOMAIN procs : procs[p].pc \in {"start", "aborted"}
  /\ ~\E p \in DOMAIN procs, q \in DOMAIN procs :
        procs[p].pc = "graph_finalize" /\ procs[q].pc = "aborted"

\* C34: when every process calls compress at the same point of the same
\* sequence of calls, a matrix->fillComplete is entered by all of them or by
\* none, also when only some of them have called set or add since the last
\* compress: no process is in the fillComplete of a compress call that
\* another process has returned from.
C34_FinalizeByAllOrNone ==
  \A p \in DOMAIN procs, q \in DOMAIN procs :
    procs[p].pc = "finalize" => procs[q].calls <= procs[p].calls

\* The rows whose merge loop was run in the last reinit from a dense
\* reference matrix: those before which no row stopped the call.
MergedRows ==
  IF ~(lastOp = "reinit(matrix)" /\ args.flag) \/ matrix.null THEN {}
  ELSE {r \in 1 .. Len(args.written) :
          \A k \in 1 .. r - 1 :
            /\ args.written[k].err = "ok"
            /\ Len(args.written[k].out) <= getLocalMaxNumRowEntries(matrix)}

\* C35: in the merge loop of reinit from a dense reference matrix, for every
\* pair of rows sorted by column, neither iterator is dereferenced at or
\* behind the end of its row, no more entries are collected for a row than
\* row_indices and values hold (the longest row of the matrix), and the loop
\* ends, after no more passes than the two rows have entries.
C35_MergeInBounds ==
  \A r \in MergedRows :
    /\ ~args.written[r].read_end
    /\ Len(args.written[r].out) <= getLocalMaxNumRowEntries(matrix)
    /\ args.written[r].steps <= Len(args.reference[r]) + Len(args.sparsity[r])

====
